---------------------------- MODULE Spec2Model ----------------------------
(***************************************************************************)
(* Inventory reservation of aether_backend: the Redis key space holding    *)
(* the stock counters and the reservation records, the four Lua scripts    *)
(* that reserve / release / commit / batch-reserve atomically, the         *)
(* InventoryService methods that call them through EVALSHA, and the        *)
(* background sweep of expired reservations.                               *)
(***************************************************************************)
EXTENDS Integers, Sequences, FiniteSets, TLC

(***************************************************************************)
(* Bounds of the model.                                                    *)
(***************************************************************************)
MaxStock == 2
MaxQty == 2
MaxTtl == 1
MaxItems == 2
MaxNegQty == 1
MaxJobs == 2

Orders == {"o1", "o2"}
Skus == {"A", "B"}
Quantities == 1..MaxQty
Ttls == 1..MaxTtl
Item == [sku : Skus, quantity : Quantities]
\* quantities a caller can pass: nothing on the way to the scripts validates them
AnyQuantities == (0 - MaxNegQty)..MaxQty
AnyItem == [sku : Skus, quantity : AnyQuantities]

RECURSIVE SeqsUpTo(_, _)
SeqsUpTo(S, n) ==
  IF n = 0 THEN {<<>>}
  ELSE LET shorter == SeqsUpTo(S, n - 1)
       IN  shorter \cup {Append(q, x) : q \in {r \in shorter : Len(r) = n - 1}, x \in S}

ItemLists == SeqsUpTo(Item, MaxItems)

(***************************************************************************)
(* Redis key space.  db maps every existing key to its value and its       *)
(* expiry; a key outside DOMAIN db does not exist (GET gives nil).         *)
(***************************************************************************)
NoExpiry == -1
NoKeyTtl == -2

getStockKey(sku) == <<"stock", "sku", sku>>

\* mutant: the reservation key is built from the SKU alone
getReservationKey_NoOrder(orderId, sku) == <<"reservation", "", sku>>

getReservationKey(orderId, sku) == <<"reservation", orderId, sku>>

StockKeys == {getStockKey(s) : s \in Skus}
ReservationKeys == {getReservationKey(o, s) : o \in Orders, s \in Skus}

VARIABLES
  db,              \* Redis: existing key -> [val, ttl]
  initialStock,    \* history: stock of each SKU when the run started
  committedQty,    \* history: sum of the quantities committed per SKU
  last,            \* the caller's last call: the call, the key space before it, its result
  prev,            \* what the call before it did, if it addressed the same reservation
  cl,              \* concurrent clients: position, call issued, result received
  swPc,            \* cleanupExpiredReservations: position
  swKeys,          \* keys of its KEYS snapshot not inspected yet
  swCur,           \* key whose TTL it found <= 0, about to be deleted
  cleanedCount,    \* its counter
  expiredQty,      \* history: quantity per SKU dropped by key expiry
  expiredAtStart,  \* history: expiredQty when the running sweep began
  sweeperRestored, \* history: stock added per SKU by the sweep
  redisUp,         \* whether the Redis connection answers commands
  mongo,           \* the products collection: one product document per SKU
  rec,             \* reconcileInventory: position, loop state, what it returns
  job,             \* releaseOrderReservations / commitOrderReservations in progress
  life,            \* history: how the reservation of each (order, SKU) pair was last resolved
  orderDocs,       \* the orders collection: orderId -> order document
  queue,           \* the order job queue: jobs added and not yet finished
  gauge,           \* the stock gauge per SKU: <<v>> once set, followed in SpecGauge
  scripts          \* InventoryService.scripts and the position of loadLuaScripts

engineHist == <<initialStock, committedQty>>
callerVars == <<last, prev>>
sweepVars == <<swPc, swKeys, swCur, cleanedCount, expiredAtStart, sweeperRestored>>
ScriptNames == <<"reserve", "release", "commit", "batchReserve">>

\* this.scripts once loadLuaScripts has finished
ScriptsLoaded ==
  [sha |-> [n \in {ScriptNames[i] : i \in 1..Len(ScriptNames)} |-> <<n>>], pc |-> "done"]

appVars == <<life, orderDocs, queue, gauge, scripts>>
envVars == <<redisUp, mongo, rec, job, appVars>>
vars == <<db, initialStock, committedQty, last, prev, cl, swPc, swKeys, swCur,
          cleanedCount, expiredQty, expiredAtStart, sweeperRestored, redisUp, mongo,
          rec, job, life, orderDocs, queue, gauge, scripts>>

EXISTS(d, k) == k \in DOMAIN d

\* tonumber(redis.call("GET", key) or "0")
GetNumber(d, k) == IF EXISTS(d, k) THEN d[k].val ELSE 0

\* redis.call("DECRBY", key, n): a missing key counts as 0 and is created
DECRBY(d, k, n) ==
  [x \in DOMAIN d \cup {k} |->
     IF x = k
       THEN IF EXISTS(d, k) THEN [d[k] EXCEPT !.val = @ - n]
                            ELSE [val |-> 0 - n, ttl |-> NoExpiry]
       ELSE d[x]]

\* redis.call("INCRBY", key, n)
INCRBY(d, k, n) == DECRBY(d, k, 0 - n)

\* SET key v: the value, and no expiry
SET(d, k, v) ==
  [x \in DOMAIN d \cup {k} |-> IF x = k THEN [val |-> v, ttl |-> NoExpiry] ELSE d[x]]

\* redis.call("SET", key, v, "EX", ttl) with ttl > 0
SETEX(d, k, v, ttl) ==
  [x \in DOMAIN d \cup {k} |-> IF x = k THEN [val |-> v, ttl |-> ttl] ELSE d[x]]

\* redis.call("DEL", key)
DEL(d, k) == [x \in DOMAIN d \ {k} |-> d[x]]

\* TTL key: -2 for a missing key, -1 for a key without expiry
TTL(d, k) == IF EXISTS(d, k) THEN d[k].ttl ELSE NoKeyTtl

\* KEYS reservation:*
KEYS(d) == {k \in DOMAIN d : k[1] = "reservation"}


(***************************************************************************)
(* The Lua scripts.  Redis runs a script atomically; a script returns      *)
(* [db, err, ret]: the key space it leaves, whether a redis.call raised    *)
(* (the writes made before the error stay: scripts do not roll back), and  *)
(* the reply.                                                              *)
(***************************************************************************)

\* mutant: decrements before it checks and does not put the stock back
ReserveStockLua_DecrFirst(d, K, ARGV) ==
  LET stock == GetNumber(d, K[1])
      qty   == ARGV[1]
      d1    == DECRBY(d, K[1], qty)
  IN  IF stock - qty >= 0
        THEN [db |-> SETEX(d1, K[2], qty, ARGV[2]), err |-> FALSE, ret |-> <<1, stock - qty>>]
        ELSE [db |-> d1, err |-> FALSE, ret |-> <<0, stock>>]

\* mutant: the stock check is missing
ReserveStockLua_NoCheck(d, K, ARGV) ==
  [db |-> SETEX(DECRBY(d, K[1], ARGV[1]), K[2], ARGV[1], ARGV[2]), err |-> FALSE,
   ret |-> <<1, GetNumber(d, K[1]) - ARGV[1]>>]

\* mutant: stock > qty instead of stock >= qty
ReserveStockLua_StrictCompare(d, K, ARGV) ==
  LET stock == GetNumber(d, K[1])
      qty   == ARGV[1]
  IN  IF stock > qty
        THEN [db |-> SETEX(DECRBY(d, K[1], qty), K[2], qty, ARGV[2]), err |-> FALSE,
              ret |-> <<1, stock - qty>>]
        ELSE [db |-> d, err |-> FALSE, ret |-> <<0, stock>>]

\* mutant: the record keeps the remaining stock instead of the quantity
ReserveStockLua_StoresRemaining(d, K, ARGV) ==
  LET stock == GetNumber(d, K[1])
      qty   == ARGV[1]
  IN  IF stock >= qty
        THEN [db |-> SETEX(DECRBY(d, K[1], qty), K[2], stock - qty, ARGV[2]),
              err |-> FALSE, ret |-> <<1, stock - qty>>]
        ELSE [db |-> d, err |-> FALSE, ret |-> <<0, stock>>]

\* scripts/reserve-stock.lua
ReserveStockLua(d, K, ARGV) ==
  LET stock == GetNumber(d, K[1])
      qty   == ARGV[1]
      ttl   == ARGV[2]
  IN  IF stock >= qty
        THEN LET d1 == DECRBY(d, K[1], qty)
             IN  IF ttl <= 0
                   THEN [db |-> d1, err |-> TRUE, ret |-> <<>>]
                   ELSE [db |-> SETEX(d1, K[2], qty, ttl), err |-> FALSE,
                         ret |-> <<1, stock - qty>>]
        ELSE [db |-> d, err |-> FALSE, ret |-> <<0, stock>>]

\* mutant: reads the stock it reports before the INCRBY
ReleaseReservationLua_StaleStock(d, K) ==
  IF EXISTS(d, K[2])
    THEN LET qty == d[K[2]].val
         IN  [db |-> DEL(INCRBY(d, K[1], qty), K[2]), err |-> FALSE,
              ret |-> <<1, qty, GetNumber(d, K[1])>>]
    ELSE [db |-> d, err |-> FALSE, ret |-> <<0, 0, GetNumber(d, K[1])>>]

\* mutant: the DEL of the reservation key is missing
ReleaseReservationLua_NoDel(d, K) ==
  IF EXISTS(d, K[2])
    THEN LET qty == d[K[2]].val
             d2  == INCRBY(d, K[1], qty)
         IN  [db |-> d2, err |-> FALSE, ret |-> <<1, qty, GetNumber(d2, K[1])>>]
    ELSE [db |-> d, err |-> FALSE, ret |-> <<0, 0, GetNumber(d, K[1])>>]

\* mutant: the reservation key is read without testing that it exists
ReleaseReservationLua_NoExistsCheck(d, K) ==
  LET qty == GetNumber(d, K[2])
      d2  == DEL(INCRBY(d, K[1], qty), K[2])
  IN  [db |-> d2, err |-> FALSE, ret |-> <<1, qty, GetNumber(d2, K[1])>>]

\* scripts/release-reservation.lua
ReleaseReservationLua(d, K) ==
  IF EXISTS(d, K[2])
    THEN LET qty == d[K[2]].val
             d2  == DEL(INCRBY(d, K[1], qty), K[2])
         IN  [db |-> d2, err |-> FALSE, ret |-> <<1, qty, GetNumber(d2, K[1])>>]
    ELSE [db |-> d, err |-> FALSE, ret |-> <<0, 0, GetNumber(d, K[1])>>]

\* mutant: the commit takes the quantity out of the stock counter once more
CommitReservationLua_TouchesStock(d, K) ==
  IF EXISTS(d, K[2])
    THEN LET qty == d[K[2]].val
             d2  == DEL(DECRBY(d, K[1], qty), K[2])
         IN  [db |-> d2, err |-> FALSE, ret |-> <<1, qty, GetNumber(d2, K[1])>>]
    ELSE [db |-> d, err |-> FALSE, ret |-> <<0, 0, GetNumber(d, K[1])>>]

\* mutant: the DEL of the reservation key is missing
CommitReservationLua_NoDel(d, K) ==
  IF EXISTS(d, K[2])
    THEN [db |-> d, err |-> FALSE, ret |-> <<1, d[K[2]].val, GetNumber(d, K[1])>>]
    ELSE [db |-> d, err |-> FALSE, ret |-> <<0, 0, GetNumber(d, K[1])>>]

\* mutant: a missing reservation is reported as committed with quantity 0
CommitReservationLua_AlwaysOk(d, K) ==
  LET qty == GetNumber(d, K[2])
      d2  == DEL(d, K[2])
  IN  [db |-> d2, err |-> FALSE, ret |-> <<1, qty, GetNumber(d2, K[1])>>]

\* scripts/commit-reservation.lua
CommitReservationLua(d, K) ==
  IF EXISTS(d, K[2])
    THEN LET qty == d[K[2]].val
             d2  == DEL(d, K[2])
         IN  [db |-> d2, err |-> FALSE, ret |-> <<1, qty, GetNumber(d2, K[1])>>]
    ELSE [db |-> d, err |-> FALSE, ret |-> <<0, 0, GetNumber(d, K[1])>>]

\* mutant: an item is sufficient only when stock > qty
RECURSIVE BatchCheck_StrictCompare(_, _, _, _)
BatchCheck_StrictCompare(d, K, ARGV, i) ==
  IF i > Len(K) THEN <<>>
  ELSE LET qty   == ARGV[i]
           stock == GetNumber(d, K[i])
       IN  <<[stockKey |-> K[i], reservationKey |-> K[i + 1],
              ok |-> IF stock <= qty THEN 0 ELSE 1,
              available |-> stock, requested |-> qty, ttl |-> ARGV[i + 1]]>>
           \o BatchCheck_StrictCompare(d, K, ARGV, i + 2)

\* scripts/batch-reserve-stock.lua, first pass: one result per key pair,
\* { stockKey, ok, available, requested }
RECURSIVE BatchCheck(_, _, _, _)
BatchCheck(d, K, ARGV, i) ==
  IF i > Len(K) THEN <<>>
  ELSE LET qty   == ARGV[i]
           stock == GetNumber(d, K[i])
       IN  <<[stockKey |-> K[i], reservationKey |-> K[i + 1],
              ok |-> IF stock < qty THEN 0 ELSE 1,
              available |-> stock, requested |-> qty, ttl |-> ARGV[i + 1]]>>
           \o BatchCheck(d, K, ARGV, i + 2)

\* mutant: the second pass stops after its first entry
RECURSIVE BatchApply_FirstOnly(_, _, _)
BatchApply_FirstOnly(d, rs, j) ==
  IF j > Len(rs) \/ j > 1 THEN [db |-> d, err |-> FALSE]
  ELSE LET d1 == DECRBY(d, rs[j].stockKey, rs[j].requested)
       IN  IF rs[j].ttl <= 0
             THEN [db |-> d1, err |-> TRUE]
             ELSE BatchApply_FirstOnly(SETEX(d1, rs[j].reservationKey, rs[j].requested,
                                             rs[j].ttl), rs, j + 1)

\* mutant: the second pass takes the stock and writes no record
RECURSIVE BatchApply_NoRecord(_, _, _)
BatchApply_NoRecord(d, rs, j) ==
  IF j > Len(rs) THEN [db |-> d, err |-> FALSE]
  ELSE BatchApply_NoRecord(DECRBY(d, rs[j].stockKey, rs[j].requested), rs, j + 1)

\* second pass: DECRBY and SET ... EX for each entry in turn
RECURSIVE BatchApply(_, _, _)
BatchApply(d, rs, j) ==
  IF j > Len(rs) THEN [db |-> d, err |-> FALSE]
  ELSE LET d1 == DECRBY(d, rs[j].stockKey, rs[j].requested)
       IN  IF rs[j].ttl <= 0
             THEN [db |-> d1, err |-> TRUE]
             ELSE BatchApply(SETEX(d1, rs[j].reservationKey, rs[j].requested, rs[j].ttl),
                             rs, j + 1)

\* mutant: the second pass runs for the sufficient items whatever allSuccess is
BatchReserveStockLua_NoGuard(d, K, ARGV) ==
  LET results    == BatchCheck(d, K, ARGV, 1)
      allSuccess == \A j \in 1..Len(results) : results[j].ok = 1
      reply      == [j \in 1..Len(results) |->
                       <<results[j].stockKey, results[j].ok,
                         results[j].available, results[j].requested>>]
      isOk(r)    == r.ok = 1
      done       == BatchApply(d, SelectSeq(results, isOk), 1)
  IN  [db |-> done.db, err |-> done.err,
       ret |-> IF done.err THEN <<>> ELSE <<IF allSuccess THEN 1 ELSE 0, reply>>]

BatchReserveStockLua(d, K, ARGV) ==
  LET results      == BatchCheck(d, K, ARGV, 1)
      allSuccess   == \A j \in 1..Len(results) : results[j].ok = 1
      isOk(r)      == r.ok = 1
      reservations == SelectSeq(results, isOk)
      reply        == [j \in 1..Len(results) |->
                         <<results[j].stockKey, results[j].ok,
                           results[j].available, results[j].requested>>]
  IN  IF allSuccess
        THEN LET done == BatchApply(d, reservations, 1)
             IN  [db |-> done.db, err |-> done.err,
                  ret |-> IF done.err THEN <<>> ELSE <<1, reply>>]
        ELSE [db |-> d, err |-> FALSE, ret |-> <<0, reply>>]

(***************************************************************************)
(* InventoryService.  Each method is one EVALSHA and the result object it  *)
(* builds from the reply, or the error it rethrows; it gives [db, result]: *)
(* the key space after the call and what the caller gets.                  *)
(***************************************************************************)
Thrown == [thrown |-> TRUE, success |-> FALSE]

\* mutant: an unreachable store is answered as "nothing found" instead of an error
evalsha_SwallowsError(d, reply) ==
  IF redisUp THEN reply ELSE [db |-> d, err |-> FALSE, ret |-> <<0, <<>>, 0>>]

\* redis.getClient().evalsha(sha, numkeys, ...keys, ...args): the reply of the
\* script, or a rejected promise when Redis cannot be reached (nothing runs)
evalsha(d, reply) ==
  IF redisUp THEN reply ELSE [db |-> d, err |-> TRUE, ret |-> <<>>]

extractSkuFromStockKey(stockKey) == stockKey[3]

reserveStock(d, orderId, sku, quantity, ttlSeconds) ==
  LET keys  == <<getStockKey(sku), getReservationKey(orderId, sku)>>
      reply == evalsha(d, ReserveStockLua(d, keys, <<quantity, ttlSeconds>>))
  IN  [db |-> reply.db,
       result |->
         IF reply.err THEN Thrown
         ELSE IF reply.ret[1] = 1
           THEN [thrown |-> FALSE, success |-> TRUE, reservedQuantity |-> quantity,
                 remainingStock |-> reply.ret[2],
                 reservationKey |-> getReservationKey(orderId, sku),
                 expiresIn |-> ttlSeconds]
           ELSE [thrown |-> FALSE, success |-> FALSE, availableStock |-> reply.ret[2],
                 requestedQuantity |-> quantity]]

releaseReservation(d, orderId, sku) ==
  LET keys  == <<getStockKey(sku), getReservationKey(orderId, sku)>>
      reply == evalsha(d, ReleaseReservationLua(d, keys))
  IN  [db |-> reply.db,
       result |->
         IF reply.err THEN Thrown
         ELSE IF reply.ret[1] = 1
           THEN [thrown |-> FALSE, success |-> TRUE, releasedQuantity |-> reply.ret[2],
                 newStock |-> reply.ret[3]]
           ELSE [thrown |-> FALSE, success |-> FALSE, currentStock |-> reply.ret[3]]]

commitReservation(d, orderId, sku) ==
  LET keys  == <<getStockKey(sku), getReservationKey(orderId, sku)>>
      reply == evalsha(d, CommitReservationLua(d, keys))
  IN  [db |-> reply.db,
       result |->
         IF reply.err THEN Thrown
         ELSE IF reply.ret[1] = 1
           THEN [thrown |-> FALSE, success |-> TRUE, committedQuantity |-> reply.ret[2],
                 remainingStock |-> reply.ret[3]]
           ELSE [thrown |-> FALSE, success |-> FALSE, currentStock |-> reply.ret[3]]]

\* parseInt((await redis.get(stockKey)) || '0', 10)
getStock(d, sku) == GetNumber(d, getStockKey(sku))

\* updateStock(sku, quantity, operation): one INCRBY, DECRBY or SET
updateStock(d, sku, quantity, operation) ==
  CASE operation = "increment" ->
         LET d1 == INCRBY(d, getStockKey(sku), quantity)
         IN  [db |-> d1, newStock |-> d1[getStockKey(sku)].val]
    [] operation = "decrement" ->
         LET d1 == DECRBY(d, getStockKey(sku), quantity)
         IN  [db |-> d1, newStock |-> d1[getStockKey(sku)].val]
    [] OTHER -> [db |-> SET(d, getStockKey(sku), quantity), newStock |-> quantity]

\* keys.push(stockKey); keys.push(reservationKey) for every item
RECURSIVE BatchKeys(_, _)
BatchKeys(orderId, items) ==
  IF items = <<>> THEN <<>>
  ELSE <<getStockKey(Head(items).sku), getReservationKey(orderId, Head(items).sku)>>
       \o BatchKeys(orderId, Tail(items))

\* args.push(quantity); args.push(ttlSeconds) for every item
RECURSIVE BatchArgs(_, _)
BatchArgs(items, ttlSeconds) ==
  IF items = <<>> THEN <<>>
  ELSE <<Head(items).quantity, ttlSeconds>> \o BatchArgs(Tail(items), ttlSeconds)

batchReserveStock(d, orderId, items, ttlSeconds) ==
  LET reply == evalsha(d, BatchReserveStockLua(d, BatchKeys(orderId, items),
                                               BatchArgs(items, ttlSeconds)))
  IN  [db |-> reply.db,
       result |->
         IF reply.err THEN Thrown
         ELSE LET results == reply.ret[2]
                  reservationResults ==
                    [j \in 1..Len(results) |->
                       [sku |-> extractSkuFromStockKey(results[j][1]),
                        success |-> results[j][2] = 1,
                        availableStock |-> results[j][3],
                        requestedQuantity |-> results[j][4]]]
              IN  IF reply.ret[1] = 1
                    THEN [thrown |-> FALSE, success |-> TRUE,
                          reservations |-> reservationResults, expiresIn |-> ttlSeconds]
                    ELSE [thrown |-> FALSE, success |-> FALSE,
                          reservations |-> reservationResults]]

(***************************************************************************)
(* Calls of the service.                                                   *)
(***************************************************************************)
ReserveCall(orderId, sku, quantity, ttlSeconds) ==
  [op |-> "reserve", orderId |-> orderId, sku |-> sku, quantity |-> quantity,
   ttl |-> ttlSeconds]
ReleaseCall(orderId, sku) == [op |-> "release", orderId |-> orderId, sku |-> sku]
CommitCall(orderId, sku) == [op |-> "commit", orderId |-> orderId, sku |-> sku]
BatchReserveCall(orderId, items, ttlSeconds) ==
  [op |-> "batchReserve", orderId |-> orderId, items |-> items, ttl |-> ttlSeconds]

SingleOps == {"reserve", "release", "commit"}

\* the call executed against key space d
Run(d, call) ==
  CASE call.op = "reserve" ->
         reserveStock(d, call.orderId, call.sku, call.quantity, call.ttl)
    [] call.op = "release" -> releaseReservation(d, call.orderId, call.sku)
    [] call.op = "commit" -> commitReservation(d, call.orderId, call.sku)
    [] call.op = "batchReserve" ->
         batchReserveStock(d, call.orderId, call.items, call.ttl)

StockOf(d, sku) == GetNumber(d, getStockKey(sku))

\* quantity held for a SKU by the reservations that exist
RECURSIVE SumHeld(_, _, _)
SumHeld(d, sku, orders) ==
  IF orders = {} THEN 0
  ELSE LET o == CHOOSE x \in orders : TRUE
           k == getReservationKey(o, sku)
       IN  (IF EXISTS(d, k) THEN d[k].val ELSE 0) + SumHeld(d, sku, orders \ {o})

HeldOf(d, sku) == SumHeld(d, sku, Orders)

Committed(call, result) ==
  [s \in Skus |->
     IF call.op = "commit" /\ result.success /\ call.sku = s
       THEN committedQty[s] + result.committedQuantity
       ELSE committedQty[s]]

NoCall(d) ==
  [call |-> [op |-> "none"], before |-> d,
   result |-> [thrown |-> FALSE, success |-> FALSE]]
NoPrev == [op |-> "none", success |-> FALSE]

\* summary of the previous call when it addressed the reservation this call addresses
PrevFor(call) ==
  IF /\ call.op \in SingleOps
     /\ last.call.op \in SingleOps
     /\ last.call.orderId = call.orderId
     /\ last.call.sku = call.sku
    THEN [op |-> last.call.op, success |-> last.result.success]
    ELSE NoPrev

(***************************************************************************)
(* Spec: one caller, any sequence of calls.  Every call is a single        *)
(* EVALSHA, which Redis runs to completion before the next command, so an  *)
(* interleaving of calls is a sequence of script executions.               *)
(***************************************************************************)
IdleClients == [c \in {"c1", "c2"} |-> [pc |-> "idle"]]

\* Redis reachable, no product documents in play, no job running
AppIdle ==
  /\ life = [p \in Orders \X Skus |-> "NONE"]
  /\ orderDocs = <<>>
  /\ queue = <<>>
  /\ gauge = [s \in Skus |-> <<>>]
  /\ scripts = ScriptsLoaded

EnvIdle ==
  /\ redisUp = TRUE
  /\ mongo = <<>>
  /\ rec = [pc |-> "idle"]
  /\ job = [pc |-> "idle"]
  /\ AppIdle

Init ==
  /\ \E present \in SUBSET Skus :
       \E level \in [present -> {MaxStock}] :
         db = [k \in {getStockKey(s) : s \in present} |->
                 [val |-> level[k[3]], ttl |-> NoExpiry]]
  /\ initialStock = [s \in Skus |-> StockOf(db, s)]
  /\ committedQty = [s \in Skus |-> 0]
  /\ last = NoCall(db)
  /\ prev = NoPrev
  /\ cl = IdleClients
  /\ swPc = "idle"
  /\ swKeys = {}
  /\ swCur = <<>>
  /\ cleanedCount = 0
  /\ expiredQty = [s \in Skus |-> 0]
  /\ expiredAtStart = [s \in Skus |-> 0]
  /\ sweeperRestored = [s \in Skus |-> 0]
  /\ EnvIdle

\* the caller receives the result of its call
Returned(call, result) ==
  /\ last' = [call |-> call, before |-> db, result |-> result]
  /\ prev' = PrevFor(call)
  /\ committedQty' = Committed(call, result)
  /\ UNCHANGED <<envVars, initialStock, cl, expiredQty, sweepVars>>

Reserve ==
  \E o \in Orders, s \in Skus, q \in Quantities, t \in Ttls :
    /\ db' = reserveStock(db, o, s, q, t).db
    /\ Returned(ReserveCall(o, s, q, t), reserveStock(db, o, s, q, t).result)

BatchReserve ==
  \E o \in Orders, items \in ItemLists, t \in Ttls :
    /\ db' = batchReserveStock(db, o, items, t).db
    /\ Returned(BatchReserveCall(o, items, t), batchReserveStock(db, o, items, t).result)

Release ==
  \E o \in Orders, s \in Skus :
    /\ db' = releaseReservation(db, o, s).db
    /\ Returned(ReleaseCall(o, s), releaseReservation(db, o, s).result)

Commit ==
  \E o \in Orders, s \in Skus :
    /\ db' = commitReservation(db, o, s).db
    /\ Returned(CommitCall(o, s), commitReservation(db, o, s).result)

Next == Reserve \/ BatchReserve \/ Release \/ Commit

Spec == Init /\ [][Next]_vars

(***************************************************************************)
(* SpecRace: two clients, each issuing one reserve, release or commit.     *)
(* A call is in flight from the moment evalsha is sent until Redis has     *)
(* run the script and the reply has come back; Redis runs the pending      *)
(* scripts one at a time, in any order.                                    *)
(***************************************************************************)
Clients == DOMAIN IdleClients

SingleCalls ==
  {ReserveCall(o, s, q, t) : o \in Orders, s \in Skus, q \in Quantities, t \in Ttls}
    \cup {ReleaseCall(o, s) : o \in Orders, s \in Skus}
    \cup {CommitCall(o, s) : o \in Orders, s \in Skus}

InitRace ==
  /\ \E present \in SUBSET Skus :
       \E level \in [present -> 0..MaxStock] :
         db = [k \in {getStockKey(s) : s \in present} |->
                 [val |-> level[k[3]], ttl |-> NoExpiry]]
  /\ initialStock = [s \in Skus |-> StockOf(db, s)]
  /\ committedQty = [s \in Skus |-> 0]
  /\ last = NoCall(<<>>)
  /\ prev = NoPrev
  /\ cl = IdleClients
  /\ swPc = "idle"
  /\ swKeys = {}
  /\ swCur = <<>>
  /\ cleanedCount = 0
  /\ expiredQty = [s \in Skus |-> 0]
  /\ expiredAtStart = [s \in Skus |-> 0]
  /\ sweeperRestored = [s \in Skus |-> 0]
  /\ EnvIdle

\* the client sends its EVALSHA
Invoke(c) ==
  /\ cl[c].pc = "idle"
  /\ \E call \in SingleCalls : cl' = [cl EXCEPT ![c] = [pc |-> "sent", call |-> call]]
  /\ UNCHANGED <<envVars, db, engineHist, callerVars, expiredQty, sweepVars>>

\* mutant: the script's reads and writes are not one step: it works on the key
\* space as it was when the run began and writes the outcome over the current one
Complete_LostUpdate(c) ==
  /\ cl[c].pc = "sent"
  /\ db' = Run(last.before, cl[c].call).db
  /\ cl' = [cl EXCEPT ![c] = [pc |-> "done", call |-> cl[c].call,
                              result |-> Run(last.before, cl[c].call).result]]
  /\ committedQty' = Committed(cl[c].call, Run(last.before, cl[c].call).result)
  /\ UNCHANGED <<envVars, initialStock, callerVars, expiredQty, sweepVars>>

\* Redis runs the script; the client builds its result from the reply
Complete(c) ==
  /\ cl[c].pc = "sent"
  /\ db' = Run(db, cl[c].call).db
  /\ cl' = [cl EXCEPT ![c] = [pc |-> "done", call |-> cl[c].call,
                              result |-> Run(db, cl[c].call).result]]
  /\ committedQty' = Committed(cl[c].call, Run(db, cl[c].call).result)
  /\ UNCHANGED <<envVars, initialStock, callerVars, expiredQty, sweepVars>>

NextRace == \E c \in Clients : Invoke(c) \/ Complete(c)

SpecRace == InitRace /\ [][NextRace]_vars

(***************************************************************************)
(* SpecQty: one reserve or batchReserve call with any integer quantity,    *)
(* from any stock level.  Neither reserveStock, batchReserveStock nor the  *)
(* scripts look at the sign of the quantity.                               *)
(***************************************************************************)
ReserveAny ==
  \E o \in Orders, s \in Skus, q \in AnyQuantities, t \in Ttls :
    /\ last.call.op = "none"
    /\ db' = reserveStock(db, o, s, q, t).db
    /\ Returned(ReserveCall(o, s, q, t), reserveStock(db, o, s, q, t).result)

BatchReserveAny ==
  \E o \in Orders, items \in SeqsUpTo(AnyItem, MaxItems), t \in Ttls :
    /\ last.call.op = "none"
    /\ db' = batchReserveStock(db, o, items, t).db
    /\ Returned(BatchReserveCall(o, items, t), batchReserveStock(db, o, items, t).result)

NextQty == ReserveAny \/ BatchReserveAny

SpecQty == InitRace /\ [][NextQty]_vars

(***************************************************************************)
(* SpecLife: one caller, any sequence of reserve, release and commit       *)
(* calls; life remembers per (order, SKU) pair which call last took        *)
(* effect on its reservation.                                              *)
(***************************************************************************)
Pairs == Orders \X Skus

\* the caller receives the result; the pair's life moves when the call took effect
ReturnedLife(call, result) ==
  LET p == <<call.orderId, call.sku>>
  IN  /\ last' = [call |-> call, before |-> db, result |-> result, was |-> life[p]]
      /\ life' = IF result.success
                   THEN [life EXCEPT ![p] = CASE call.op = "reserve" -> "RESERVED"
                                              [] call.op = "release" -> "RELEASED"
                                              [] call.op = "commit" -> "COMMITTED"]
                   ELSE life
      /\ UNCHANGED <<redisUp, mongo, rec, job, orderDocs, queue, gauge, scripts,
                     engineHist, prev, cl, expiredQty, sweepVars>>

LifeCall ==
  \E call \in SingleCalls :
    /\ db' = Run(db, call).db
    /\ ReturnedLife(call, Run(db, call).result)

NextLife == LifeCall

SpecLife == Init /\ [][NextLife]_vars

(***************************************************************************)
(* SpecAdjust: two clients, each issuing one updateStock.  The call is a   *)
(* single INCRBY, DECRBY or SET, in flight from the moment it is sent      *)
(* until Redis has run it; Redis runs the pending commands one at a time,  *)
(* in any order.                                                           *)
(***************************************************************************)
UpdateStockCall(sku, quantity, operation) ==
  [op |-> "updateStock", sku |-> sku, quantity |-> quantity, operation |-> operation]

AdjustCalls ==
  {UpdateStockCall(s, q, operation) :
     s \in Skus, q \in Quantities, operation \in {"increment", "decrement"}}
    \cup {UpdateStockCall(s, q, "set") : s \in Skus, q \in AnyQuantities}

\* what an increment or decrement adds to the counter
Delta(call) ==
  CASE call.operation = "increment" -> call.quantity
    [] call.operation = "decrement" -> 0 - call.quantity
    [] OTHER -> 0

\* the client sends its command
InvokeAdjust(c) ==
  /\ cl[c].pc = "idle"
  /\ \E call \in AdjustCalls : cl' = [cl EXCEPT ![c] = [pc |-> "sent", call |-> call]]
  /\ UNCHANGED <<envVars, db, engineHist, callerVars, expiredQty, sweepVars>>

\* mutant: the new value is computed from the stock read when the run began
\* and written with SET
CompleteAdjust_LostUpdate(c) ==
  /\ cl[c].pc = "sent"
  /\ LET call     == cl[c].call
         newStock == IF call.operation = "set" THEN call.quantity
                     ELSE initialStock[call.sku] + Delta(call)
     IN  /\ db' = SET(db, getStockKey(call.sku), newStock)
         /\ cl' = [cl EXCEPT ![c] = [pc |-> "done", call |-> call, newStock |-> newStock,
                                     stockBefore |-> getStock(db, call.sku),
                                     stockAfter |-> getStock(db', call.sku)]]
  /\ UNCHANGED <<envVars, engineHist, callerVars, expiredQty, sweepVars>>

\* Redis runs the command; updateStock returns newStock
CompleteAdjust(c) ==
  /\ cl[c].pc = "sent"
  /\ LET call == cl[c].call
         done == updateStock(db, call.sku, call.quantity, call.operation)
     IN  /\ db' = done.db
         /\ cl' = [cl EXCEPT ![c] = [pc |-> "done", call |-> call,
                                     newStock |-> done.newStock,
                                     stockBefore |-> getStock(db, call.sku),
                                     stockAfter |-> getStock(db', call.sku)]]
  /\ UNCHANGED <<envVars, engineHist, callerVars, expiredQty, sweepVars>>

NextAdjust == \E c \in Clients : InvokeAdjust(c) \/ CompleteAdjust(c)

SpecAdjust == InitRace /\ [][NextAdjust]_vars

(***************************************************************************)
(* SpecConc: two clients, each issuing one call of any kind, batchReserve  *)
(* included.  It starts as Spec does, so last.before keeps the key space   *)
(* the run began with.                                                     *)
(***************************************************************************)
BatchCalls ==
  {BatchReserveCall(o, items, t) : o \in Orders, items \in ItemLists, t \in Ttls}

\* the client sends the EVALSHA of a batchReserveStock call
InvokeBatch(c) ==
  /\ cl[c].pc = "idle"
  /\ \E call \in BatchCalls : cl' = [cl EXCEPT ![c] = [pc |-> "sent", call |-> call]]
  /\ UNCHANGED <<envVars, db, engineHist, callerVars, expiredQty, sweepVars>>

NextConc == \E c \in Clients : Invoke(c) \/ InvokeBatch(c) \/ Complete(c)

SpecConc == Init /\ [][NextConc]_vars

(***************************************************************************)
(* SpecSweep: reserve / release / commit traffic, the passing of time      *)
(* (Redis drops a key when its expiry is reached) and the job              *)
(* cleanupExpiredReservations, one Redis command per step.                 *)
(***************************************************************************)
\* quantity per SKU held by the keys that expire at the next second
ExpiringQty(d, sku) ==
  SumHeld([k \in {x \in DOMAIN d : d[x].ttl = 1} |-> d[k]], sku, Orders)

\* one second passes
Tick ==
  /\ \E k \in DOMAIN db : db[k].ttl > 0
  /\ db' = [k \in {x \in DOMAIN db : db[x].ttl # 1} |->
              IF db[k].ttl > 1 THEN [db[k] EXCEPT !.ttl = @ - 1] ELSE db[k]]
  /\ expiredQty' = [s \in Skus |-> expiredQty[s] + ExpiringQty(db, s)]
  /\ UNCHANGED <<envVars, engineHist, callerVars, cl, sweepVars>>

\* a reserve, release or commit of some caller
Traffic ==
  \E call \in SingleCalls :
    /\ db' = Run(db, call).db
    /\ committedQty' = Committed(call, Run(db, call).result)
    /\ UNCHANGED <<envVars, initialStock, callerVars, cl, expiredQty, sweepVars>>

\* const keys = await redis.getClient().keys('reservation:*'); cleanedCount = 0
SweepKeys ==
  /\ swPc \in {"idle", "done"}
  /\ swPc' = "loop"
  /\ swKeys' = KEYS(db)
  /\ cleanedCount' = 0
  /\ expiredAtStart' = expiredQty
  /\ UNCHANGED <<envVars, db, engineHist, callerVars, cl, swCur, expiredQty, sweeperRestored>>

\* const ttl = await redis.getClient().ttl(key); if (ttl <= 0) ...
SweepTtl ==
  /\ swPc = "loop"
  /\ \E k \in swKeys :
       IF TTL(db, k) <= 0
         THEN swPc' = "del" /\ swCur' = k /\ swKeys' = swKeys \ {k}
         ELSE swPc' = "loop" /\ swCur' = swCur /\ swKeys' = swKeys \ {k}
  /\ UNCHANGED <<envVars, db, engineHist, callerVars, cl, cleanedCount, expiredQty,
                 expiredAtStart, sweeperRestored>>

\* await redis.del(key); cleanedCount++
SweepDel ==
  /\ swPc = "del"
  /\ db' = DEL(db, swCur)
  /\ cleanedCount' = cleanedCount + 1
  /\ sweeperRestored' =
       [s \in Skus |-> sweeperRestored[s] + StockOf(db', s) - StockOf(db, s)]
  /\ swPc' = "loop"
  /\ swCur' = <<>>
  /\ UNCHANGED <<envVars, engineHist, callerVars, cl, swKeys, expiredQty, expiredAtStart>>

\* return cleanedCount
SweepFinish ==
  /\ swPc = "loop"
  /\ swKeys = {}
  /\ swPc' = "done"
  /\ UNCHANGED <<envVars, db, engineHist, callerVars, cl, swKeys, swCur, cleanedCount,
                 expiredQty, expiredAtStart, sweeperRestored>>

NextSweep == Traffic \/ Tick \/ SweepKeys \/ SweepTtl \/ SweepDel \/ SweepFinish

SpecSweep == Init /\ [][NextSweep]_vars

(***************************************************************************)
(* reconcileInventory.  The products collection holds one product per SKU, *)
(* each with one variant; the job takes its Product.find, the GET of       *)
(* getStock and the SET of updateStock as separate steps.                  *)
(***************************************************************************)
Merchants == {"m1", "m2"}
ProductOf == [s \in Skus |-> IF s = "A" THEN "p1" ELSE "p2"]
MerchantOf == [s \in Skus |-> IF s = "A" THEN "m1" ELSE "m2"]
SkuSeq == <<"A", "B">>

\* the product documents, in the order Product.find returns them
Products(status, isActive, stock) ==
  [i \in 1..Len(SkuSeq) |->
     [id |-> ProductOf[SkuSeq[i]], status |-> status[SkuSeq[i]],
      merchantId |-> MerchantOf[SkuSeq[i]],
      variants |-> <<[sku |-> SkuSeq[i], stock |-> stock[SkuSeq[i]],
                      isActive |-> isActive[SkuSeq[i]]]>>]]

\* Product.find({ status: 'active' [, merchantId] })
Find(merchantId) ==
  LET matches(p) == p.status = "active" /\ (merchantId = "" \/ p.merchantId = merchantId)
  IN  SelectSeq(mongo, matches)

\* the variants the two loops visit, those with !variant.isActive skipped
RECURSIVE ActiveVariants(_)
ActiveVariants(products) ==
  IF products = <<>> THEN <<>>
  ELSE LET p      == Head(products)
           on(v)  == v.isActive
           own    == [j \in 1..Len(p.variants) |->
                        [productId |-> p.id, sku |-> p.variants[j].sku,
                         stock |-> p.variants[j].stock,
                         isActive |-> p.variants[j].isActive]]
       IN  SelectSeq(own, on) \o ActiveVariants(Tail(products))

\* mutant: the difference is taken the other way round
Discrepancy_Reversed(variant, redisStock) ==
  [productId |-> variant.productId, sku |-> variant.sku, redisStock |-> redisStock,
   mongoStock |-> variant.stock, difference |-> variant.stock - redisStock]

\* the entry pushed to discrepancies (the title is left out)
Discrepancy(variant, redisStock) ==
  [productId |-> variant.productId, sku |-> variant.sku, redisStock |-> redisStock,
   mongoStock |-> variant.stock, difference |-> redisStock - variant.stock]

InitReconcile ==
  /\ \E present \in SUBSET Skus :
       \E level \in [present -> 0..MaxStock] :
         db = [k \in {getStockKey(s) : s \in present} |->
                 [val |-> level[k[3]], ttl |-> NoExpiry]]
  /\ \E status \in [Skus -> {"active", "draft"}], isActive \in [Skus -> BOOLEAN],
        stock \in [Skus -> 0..MaxStock] :
       mongo = Products(status, isActive, stock)
  /\ initialStock = [s \in Skus |-> StockOf(db, s)]
  /\ committedQty = [s \in Skus |-> 0]
  /\ last = NoCall(<<>>)
  /\ prev = NoPrev
  /\ cl = IdleClients
  /\ swPc = "idle"
  /\ swKeys = {}
  /\ swCur = <<>>
  /\ cleanedCount = 0
  /\ expiredQty = [s \in Skus |-> 0]
  /\ expiredAtStart = [s \in Skus |-> 0]
  /\ sweeperRestored = [s \in Skus |-> 0]
  /\ redisUp = TRUE
  /\ rec = [pc |-> "idle"]
  /\ job = [pc |-> "idle"]
  /\ AppIdle

\* the job starts with every product active and the variant stock at MaxStock
InitReconcileLive ==
  /\ InitReconcile
  /\ \A s \in Skus : EXISTS(db, getStockKey(s)) => StockOf(db, s) = MaxStock
  /\ \A i \in DOMAIN mongo :
       /\ mongo[i].status = "active"
       /\ mongo[i].variants[1].isActive
       /\ mongo[i].variants[1].stock = MaxStock

\* const products = await Product.find(query); discrepancies = []; reconciledCount = 0
ReconcileFind ==
  /\ rec.pc = "idle"
  /\ \E merchantId \in {""} \cup Merchants :
       rec' = [pc |-> "get", merchantId |-> merchantId,
               productsChecked |-> Len(Find(merchantId)),
               todo |-> ActiveVariants(Find(merchantId)),
               redisStock |-> 0, discrepancies |-> <<>>, reconciledCount |-> 0,
               before |-> db, written |-> {}]
  /\ UNCHANGED <<db, engineHist, callerVars, cl, expiredQty, sweepVars, redisUp, mongo, appVars, job>>

\* const redisStock = await InventoryService.getStock(variant.sku);
\* if (redisStock !== mongoStock) discrepancies.push(...)
ReconcileGet ==
  /\ rec.pc = "get"
  /\ rec.todo # <<>>
  /\ LET variant    == Head(rec.todo)
         redisStock == getStock(db, variant.sku)
     IN  IF redisStock # variant.stock
           THEN rec' = [rec EXCEPT !.pc = "set", !.redisStock = redisStock,
                                   !.discrepancies =
                                     Append(@, Discrepancy(variant, redisStock))]
           ELSE rec' = [rec EXCEPT !.redisStock = redisStock, !.todo = Tail(@)]
  /\ UNCHANGED <<db, engineHist, callerVars, cl, expiredQty, sweepVars, redisUp, mongo, appVars, job>>

\* await InventoryService.updateStock(variant.sku, mongoStock, 'set'); reconciledCount++
ReconcileSet ==
  /\ rec.pc = "set"
  /\ db' = updateStock(db, Head(rec.todo).sku, Head(rec.todo).stock, "set").db
  /\ rec' = [rec EXCEPT !.pc = "get", !.todo = Tail(@),
                         !.reconciledCount = @ + 1,
                         !.written = @ \cup {Head(rec.todo).sku}]
  /\ UNCHANGED <<engineHist, callerVars, cl, expiredQty, sweepVars, redisUp, mongo, appVars, job>>

\* return { success: true, merchantId, productsChecked, discrepancies, reconciledCount }
ReconcileReturn ==
  /\ rec.pc = "get"
  /\ rec.todo = <<>>
  /\ rec' = [rec EXCEPT !.pc = "done"]
  /\ UNCHANGED <<db, engineHist, callerVars, cl, expiredQty, sweepVars, redisUp, mongo, appVars, job>>

\* SpecReconcileQuiet: one run of the job alone; SpecReconcile: one run of the
\* job while two clients each make a reserve, release or commit call
NextReconcileQuiet == ReconcileFind \/ ReconcileGet \/ ReconcileSet \/ ReconcileReturn

SpecReconcileQuiet == InitReconcile /\ [][NextReconcileQuiet]_vars

NextReconcile == NextReconcileQuiet \/ NextRace

SpecReconcile == InitReconcileLive /\ [][NextReconcile]_vars

(***************************************************************************)
(* SpecFail: one caller, any sequence of calls, while the connection to    *)
(* Redis comes and goes.  The caller's record keeps whether Redis could be *)
(* reached when the call was made.                                         *)
(***************************************************************************)
\* this.client.on('close'): commands are rejected from now on
ConnectionLost ==
  /\ redisUp
  /\ redisUp' = FALSE
  /\ UNCHANGED <<db, engineHist, callerVars, cl, expiredQty, sweepVars, mongo, appVars, rec, job>>

\* this.client.on('ready')
ConnectionRestored ==
  /\ ~redisUp
  /\ redisUp' = TRUE
  /\ UNCHANGED <<db, engineHist, callerVars, cl, expiredQty, sweepVars, mongo, appVars, rec, job>>

\* a reserveStock, batchReserveStock, releaseReservation or commitReservation call
CallService ==
  \E call \in SingleCalls \cup BatchCalls :
    /\ db' = Run(db, call).db
    /\ last' = [call |-> call, before |-> db, result |-> Run(db, call).result,
                up |-> redisUp]
    /\ committedQty' = Committed(call, Run(db, call).result)
    /\ UNCHANGED <<envVars, initialStock, prev, cl, expiredQty, sweepVars>>

NextFail == CallService \/ ConnectionLost \/ ConnectionRestored

SpecFail == Init /\ [][NextFail]_vars

(***************************************************************************)
(* SpecOrderJob: releaseOrderReservations / commitOrderReservations, one   *)
(* releaseReservation or commitReservation call per step, while the        *)
(* connection to Redis comes and goes.  The job keeps, as history, the key *)
(* space and the state of the connection at each of its calls.             *)
(***************************************************************************)
SkuLists == SeqsUpTo(Skus, MaxItems)

\* results.push({ sku, ...result }), or in the catch block
\* results.push({ sku, success: false, error: error.message })
OrderEntry(sku, result) ==
  IF result.thrown
    THEN [sku |-> sku, success |-> FALSE, error |-> "message"]
    ELSE [sku |-> sku] @@ result

InitOrderJob ==
  /\ \E held \in [Orders \X Skus -> 0..MaxQty] :
       db = [k \in StockKeys \cup {getReservationKey(p[1], p[2]) :
                                     p \in {x \in Orders \X Skus : held[x] > 0}} |->
               IF k[1] = "stock"
                 THEN [val |-> MaxStock, ttl |-> NoExpiry]
                 ELSE [val |-> held[<<k[2], k[3]>>], ttl |-> MaxTtl]]
  /\ initialStock = [s \in Skus |-> StockOf(db, s)]
  /\ committedQty = [s \in Skus |-> 0]
  /\ last = NoCall(<<>>)
  /\ prev = NoPrev
  /\ cl = IdleClients
  /\ swPc = "idle"
  /\ swKeys = {}
  /\ swCur = <<>>
  /\ cleanedCount = 0
  /\ expiredQty = [s \in Skus |-> 0]
  /\ expiredAtStart = [s \in Skus |-> 0]
  /\ sweeperRestored = [s \in Skus |-> 0]
  /\ redisUp \in BOOLEAN
  /\ mongo = <<>>
  /\ rec = [pc |-> "idle"]
  /\ job = [pc |-> "idle"]
  /\ AppIdle

\* releaseOrderReservations(orderId, skus) or commitOrderReservations(orderId, skus)
\* is called: const results = []
OrderStart ==
  /\ job.pc = "idle"
  /\ \E op \in {"release", "commit"}, orderId \in Orders, skus \in SkuLists :
       job' = [pc |-> "loop", op |-> op, orderId |-> orderId, skus |-> skus,
               results |-> <<>>, dbAt |-> <<>>, upAt |-> <<>>]
  /\ UNCHANGED <<db, engineHist, callerVars, cl, expiredQty, sweepVars, redisUp, mongo, appVars, rec>>

\* mutant: the error of one SKU is rethrown and ends the loop
OrderStep_AbortsOnError ==
  /\ job.pc = "loop"
  /\ Len(job.results) < Len(job.skus)
  /\ LET sku == job.skus[Len(job.results) + 1]
         r   == Run(db, [op |-> job.op, orderId |-> job.orderId, sku |-> sku])
     IN  /\ db' = r.db
         /\ job' = [job EXCEPT !.pc = IF r.result.thrown THEN "done" ELSE "loop",
                                !.results = IF r.result.thrown THEN @
                                            ELSE Append(@, OrderEntry(sku, r.result)),
                                !.dbAt = Append(@, db),
                                !.upAt = Append(@, redisUp)]
         /\ committedQty' = Committed([op |-> job.op, sku |-> sku], r.result)
  /\ UNCHANGED <<initialStock, callerVars, cl, expiredQty, sweepVars, redisUp, mongo, appVars, rec>>

\* one turn of for (const sku of skus) { try { ... } catch (error) { ... } }
OrderStep ==
  /\ job.pc = "loop"
  /\ Len(job.results) < Len(job.skus)
  /\ LET sku == job.skus[Len(job.results) + 1]
         r   == Run(db, [op |-> job.op, orderId |-> job.orderId, sku |-> sku])
     IN  /\ db' = r.db
         /\ job' = [job EXCEPT !.results = Append(@, OrderEntry(sku, r.result)),
                                !.dbAt = Append(@, db),
                                !.upAt = Append(@, redisUp)]
         /\ committedQty' = Committed([op |-> job.op, sku |-> sku], r.result)
  /\ UNCHANGED <<initialStock, callerVars, cl, expiredQty, sweepVars, redisUp, mongo, appVars, rec>>

\* return results
OrderReturn ==
  /\ job.pc = "loop"
  /\ Len(job.results) = Len(job.skus)
  /\ job' = [job EXCEPT !.pc = "done"]
  /\ UNCHANGED <<db, engineHist, callerVars, cl, expiredQty, sweepVars, redisUp, mongo, appVars, rec>>

NextOrderJob ==
  OrderStart \/ OrderStep \/ OrderReturn \/ ConnectionLost \/ ConnectionRestored

SpecOrderJob == InitOrderJob /\ [][NextOrderJob]_vars

(***************************************************************************)
(* Reservations that exist when a run begins: every SKU has MaxStock on    *)
(* hand and each (order, SKU) pair holds nothing or 1..MaxQty, with        *)
(* MaxTtl seconds left.                                                    *)
(***************************************************************************)
InitHeld ==
  /\ \E held \in [Orders \X Skus -> 0..MaxQty] :
       db = [k \in StockKeys \cup {getReservationKey(p[1], p[2]) :
                                     p \in {x \in Orders \X Skus : held[x] > 0}} |->
               IF k[1] = "stock"
                 THEN [val |-> MaxStock, ttl |-> NoExpiry]
                 ELSE [val |-> held[<<k[2], k[3]>>], ttl |-> MaxTtl]]
  /\ initialStock = [s \in Skus |-> StockOf(db, s)]
  /\ committedQty = [s \in Skus |-> 0]
  /\ last = NoCall(db)
  /\ prev = NoPrev
  /\ cl = IdleClients
  /\ swPc = "idle"
  /\ swKeys = {}
  /\ swCur = <<>>
  /\ cleanedCount = 0
  /\ expiredQty = [s \in Skus |-> 0]
  /\ expiredAtStart = [s \in Skus |-> 0]
  /\ sweeperRestored = [s \in Skus |-> 0]
  /\ EnvIdle

(***************************************************************************)
(* SpecRaceHeld: the two clients of SpecRace, starting with reservations   *)
(* in place.                                                               *)
(***************************************************************************)
SpecRaceHeld == InitHeld /\ [][NextRace]_vars

(***************************************************************************)
(* SpecRoundTrip: one caller; every successful reserve is followed at once *)
(* by the release of the same (order, SKU) pair.  The record of the        *)
(* release keeps the record of the reserve before it.                      *)
(***************************************************************************)
RtReserve ==
  \E o \in Orders, s \in Skus, q \in AnyQuantities, t \in Ttls :
    /\ ~(last.call.op = "reserve" /\ last.result.success)
    /\ db' = reserveStock(db, o, s, q, t).db
    /\ last' = [call |-> ReserveCall(o, s, q, t), before |-> db,
                result |-> reserveStock(db, o, s, q, t).result]
    /\ UNCHANGED <<envVars, engineHist, prev, cl, expiredQty, sweepVars>>

RtRelease ==
  /\ last.call.op = "reserve"
  /\ last.result.success
  /\ LET r == releaseReservation(db, last.call.orderId, last.call.sku)
     IN  /\ db' = r.db
         /\ last' = [call |-> ReleaseCall(last.call.orderId, last.call.sku),
                     before |-> db, result |-> r.result, reserve |-> last]
  /\ UNCHANGED <<envVars, engineHist, prev, cl, expiredQty, sweepVars>>

NextRoundTrip == RtReserve \/ RtRelease

SpecRoundTrip == InitHeld /\ [][NextRoundTrip]_vars

(***************************************************************************)
(* SpecSame: from one starting state, reserveStock and batchReserveStock   *)
(* with the single item { sku, quantity } are both evaluated; the record   *)
(* keeps both outcomes and the key space goes on as reserveStock left it.  *)
(***************************************************************************)
AnyTtls == 0..MaxTtl

ReserveBothWays ==
  \E o \in Orders, s \in Skus, q \in AnyQuantities, t \in AnyTtls :
    LET single == reserveStock(db, o, s, q, t)
        batch  == batchReserveStock(db, o, <<[sku |-> s, quantity |-> q]>>, t)
    IN  /\ last.call.op = "none"
        /\ db' = single.db
        /\ last' = [call |-> ReserveCall(o, s, q, t), before |-> db,
                    result |-> single.result, batchResult |-> batch.result,
                    batchDb |-> batch.db]
        /\ UNCHANGED <<envVars, engineHist, prev, cl, expiredQty, sweepVars>>

NextSame == ReserveBothWays

\* any stock level with no reservation, or full stock with reservations held
InitSame == InitRace \/ InitHeld

SpecSame == InitSame /\ [][NextSame]_vars

(***************************************************************************)
(* The commands defined on the connection by RedisConnection.loadLuaScripts *)
(* (defineCommand 'reserveStock' and 'releaseReservation'), and SpecInline: *)
(* from one starting state the file script and the inline command of the   *)
(* same name are both evaluated; the record keeps both outcomes and the    *)
(* key space goes on as the file script left it.                           *)
(***************************************************************************)
\* defineCommand('reserveStock', ...): returns 1 or 0
ReserveStockInline(d, K, ARGV) ==
  LET stock == GetNumber(d, K[1])
      qty   == ARGV[1]
  IN  IF stock >= qty
        THEN LET d1 == DECRBY(d, K[1], qty)
             IN  IF ARGV[2] <= 0
                   THEN [db |-> d1, err |-> TRUE, ret |-> <<>>]
                   ELSE [db |-> SETEX(d1, K[2], qty, ARGV[2]), err |-> FALSE, ret |-> 1]
        ELSE [db |-> d, err |-> FALSE, ret |-> 0]

\* mutant: the DEL of the reservation key is missing
ReleaseReservationInline_KeepsKey(d, K) ==
  IF EXISTS(d, K[2])
    THEN [db |-> INCRBY(d, K[1], d[K[2]].val), err |-> FALSE, ret |-> 1]
    ELSE [db |-> d, err |-> FALSE, ret |-> 0]

\* defineCommand('releaseReservation', ...): INCRBY by the stored value, DEL
ReleaseReservationInline(d, K) ==
  IF EXISTS(d, K[2])
    THEN [db |-> DEL(INCRBY(d, K[1], d[K[2]].val), K[2]), err |-> FALSE, ret |-> 1]
    ELSE [db |-> d, err |-> FALSE, ret |-> 0]

ScriptBothWays ==
  \E o \in Orders, s \in Skus, q \in AnyQuantities, t \in AnyTtls,
     op \in {"reserve", "release"} :
    LET keys   == <<getStockKey(s), getReservationKey(o, s)>>
        file   == IF op = "reserve" THEN ReserveStockLua(db, keys, <<q, t>>)
                  ELSE ReleaseReservationLua(db, keys)
        inline == IF op = "reserve" THEN ReserveStockInline(db, keys, <<q, t>>)
                  ELSE ReleaseReservationInline(db, keys)
    IN  /\ last.call.op = "none"
        /\ op = "release" => (q = 1 /\ t = 1)   \* a release takes no arguments
        /\ db' = file.db
        /\ last' = [call |-> IF op = "reserve" THEN ReserveCall(o, s, q, t)
                             ELSE ReleaseCall(o, s),
                    before |-> db, result |-> [thrown |-> file.err, success |-> FALSE],
                    file |-> file, inline |-> inline]
        /\ UNCHANGED <<envVars, engineHist, prev, cl, expiredQty, sweepVars>>

NextInline == ScriptBothWays

SpecInline == InitSame /\ [][NextInline]_vars

(***************************************************************************)
(* SpecList: getOrderReservations, one Redis command per step, while       *)
(* other callers release or commit reservations and time passes.           *)
(***************************************************************************)
\* parseInt(quantity, 10) of a GET reply: <<n>> for the number n, NaN for nil
NaN == <<>>
parseInt(d, k) == IF EXISTS(d, k) THEN <<d[k].val>> ELSE NaN

\* redis.getClient().keys(this.getReservationKey(orderId, '*'))
KeysOfOrder(d, orderId) == {k \in KEYS(d) : k[2] = orderId}

extractSkuFromReservationKey(reservationKey) == reservationKey[3]

\* a release or a commit of some caller
Resolve ==
  \E o \in Orders, s \in Skus, op \in {"release", "commit"} :
    LET call == [op |-> op, orderId |-> o, sku |-> s]
    IN  /\ EXISTS(db, getReservationKey(o, s))
        /\ db' = Run(db, call).db
        /\ committedQty' = Committed(call, Run(db, call).result)
        /\ UNCHANGED <<envVars, initialStock, callerVars, cl, expiredQty, sweepVars>>

\* const keys = await redis.getClient().keys(pattern); const reservations = []
ListKeys ==
  /\ job.pc = "idle"
  /\ \E orderId \in Orders :
       job' = [pc |-> "get", orderId |-> orderId, keys |-> KeysOfOrder(db, orderId),
               key |-> <<>>, quantity |-> NaN, reservations |-> <<>>, dbAt |-> db]
  /\ UNCHANGED <<db, engineHist, callerVars, cl, expiredQty, sweepVars, redisUp, mongo,
                 appVars, rec>>

\* for (const key of keys) { const quantity = await redis.get(key)
ListGet ==
  /\ job.pc = "get"
  /\ \E k \in job.keys :
       job' = [job EXCEPT !.pc = "ttl", !.key = k, !.keys = @ \ {k},
                          !.quantity = parseInt(db, k)]
  /\ UNCHANGED <<db, engineHist, callerVars, cl, expiredQty, sweepVars, redisUp, mongo,
                 appVars, rec>>

\* const ttl = await redis.getClient().ttl(key); reservations.push({ sku,
\* quantity: parseInt(quantity, 10), ttl, ... })
ListTtl ==
  /\ job.pc = "ttl"
  /\ job' = [job EXCEPT !.pc = "get",
                        !.reservations =
                          Append(@, [sku |-> extractSkuFromReservationKey(job.key),
                                     quantity |-> job.quantity,
                                     ttl |-> TTL(db, job.key)])]
  /\ UNCHANGED <<db, engineHist, callerVars, cl, expiredQty, sweepVars, redisUp, mongo,
                 appVars, rec>>

\* return reservations
ListReturn ==
  /\ job.pc = "get"
  /\ job.keys = {}
  /\ job' = [job EXCEPT !.pc = "done"]
  /\ UNCHANGED <<db, engineHist, callerVars, cl, expiredQty, sweepVars, redisUp, mongo,
                 appVars, rec>>

NextList == ListKeys \/ ListGet \/ ListTtl \/ ListReturn \/ Resolve \/ Tick

SpecList == InitHeld /\ [][NextList]_vars

(***************************************************************************)
(* SpecApp: an order document, the order job queue and the worker that     *)
(* runs processOrderPaid and processOrderCancelled, one SKU of the order   *)
(* per step, while payment results and cancellations arrive and the        *)
(* connection to Redis comes and goes.  One order is followed; the other   *)
(* order holds one unit of every SKU throughout.  One job runs at a time;  *)
(* a job run again by the queue after a failure in its later part          *)
(* (analytics, email, fulfillment) is a second job of the same type.       *)
(***************************************************************************)
AppOrders == {"o1"}

\* order.items.map(item => item.sku)
ItemSkus == {<<"A">>, <<"B">>, <<"A", "B">>}

InitApp ==
  /\ \E held \in [Skus -> 0..MaxQty] :
       db = [k \in StockKeys
                     \cup {getReservationKey("o1", s) : s \in {x \in Skus : held[x] > 0}}
                     \cup {getReservationKey("o2", s) : s \in Skus} |->
               IF k[1] = "stock" THEN [val |-> MaxStock, ttl |-> NoExpiry]
               ELSE IF k[2] = "o1" THEN [val |-> held[k[3]], ttl |-> MaxTtl]
               ELSE [val |-> 1, ttl |-> MaxTtl]]
  /\ initialStock = [s \in Skus |-> StockOf(db, s)]
  /\ committedQty = [s \in Skus |-> 0]
  /\ last = NoCall(db)
  /\ prev = NoPrev
  /\ cl = IdleClients
  /\ swPc = "idle"
  /\ swKeys = {}
  /\ swCur = <<>>
  /\ cleanedCount = 0
  /\ expiredQty = [s \in Skus |-> 0]
  /\ expiredAtStart = [s \in Skus |-> 0]
  /\ sweeperRestored = [s \in Skus |-> 0]
  /\ redisUp = TRUE
  /\ mongo = <<>>
  /\ rec = [pc |-> "idle"]
  /\ job = [pc |-> "idle"]
  /\ life = [p \in Orders \X Skus |-> "NONE"]
  /\ \E skus \in [AppOrders -> ItemSkus] :
       orderDocs = [o \in AppOrders |->
                      [skus |-> skus[o], status |-> "created", payment |-> "pending",
                       paidRuns |-> 0]]
  /\ queue = <<>>
  /\ gauge = [s \in Skus |-> <<>>]
  /\ scripts = ScriptsLoaded

\* JobScheduler.addOrderJob(type, { orderId })
addOrderJob(type, orderId) == Append(queue, [type |-> type, orderId |-> orderId])

appFrame == <<db, engineHist, callerVars, cl, expiredQty, sweepVars, redisUp, mongo, rec,
              life, gauge, scripts>>

\* payment.js handlePaymentSuccess: order.markAsPaid(...), then
\* OrderService.processOrderPaid(orderId)
handlePaymentSuccess ==
  \E o \in AppOrders :
    /\ Len(queue) < MaxJobs
    /\ orderDocs' = [orderDocs EXCEPT ![o].status = "paid", ![o].payment = "succeeded"]
    /\ queue' = addOrderJob("processOrderPaid", o)
    /\ UNCHANGED <<appFrame, job>>

\* payment.js handlePaymentFailed: status 'payment_failed', then
\* OrderService.processOrderCancelled(orderId, reason)
handlePaymentFailed ==
  \E o \in AppOrders :
    /\ Len(queue) < MaxJobs
    /\ orderDocs' = [orderDocs EXCEPT ![o].status = "payment_failed",
                                      ![o].payment = "failed"]
    /\ queue' = addOrderJob("processOrderCancelled", o)
    /\ UNCHANGED <<appFrame, job>>

\* Order.canBeCancelled
canBeCancelled(order) == order.status \in {"created", "payment_pending", "paid"}

\* OrderController.cancelOrder: order.cancel('Cancelled by user', userId)
cancelOrder ==
  \E o \in AppOrders :
    /\ canBeCancelled(orderDocs[o])
    /\ orderDocs' = [orderDocs EXCEPT ![o].status = "cancelled"]
    /\ UNCHANGED <<appFrame, job, queue>>

\* WebhookController.stripe, case 'payment_intent.payment_failed'
WebhookPaymentFailed ==
  \E o \in AppOrders :
    /\ orderDocs[o].payment # "failed"
    /\ orderDocs' = [orderDocs EXCEPT ![o].payment = "failed"]
    /\ UNCHANGED <<appFrame, job, queue>>

\* mutant: the paid job releases the reservations
JobOp_AlwaysRelease(type) == "release"

\* commitOrderReservations in processOrderPaid, releaseOrderReservations in
\* processOrderCancelled
JobOp(type) == IF type = "processOrderPaid" THEN "commit" ELSE "release"

\* the worker takes the next job: Order.findById(orderId), skus of its items
JobStart ==
  /\ job.pc \in {"idle", "done"}
  /\ queue # <<>>
  /\ LET j == Head(queue)
     IN  job' = [pc |-> "loop", type |-> j.type, orderId |-> j.orderId,
                 skus |-> orderDocs[j.orderId].skus, results |-> <<>>, upAt |-> <<>>,
                 runsBefore |-> orderDocs[j.orderId].paidRuns,
                 stockChanged |-> FALSE, changed |-> FALSE]
  /\ queue' = Tail(queue)
  /\ UNCHANGED <<appFrame, orderDocs>>

\* one turn of the loop of commitOrderReservations / releaseOrderReservations
JobStep ==
  /\ job.pc = "loop"
  /\ Len(job.results) < Len(job.skus)
  /\ LET sku  == job.skus[Len(job.results) + 1]
         call == [op |-> JobOp(job.type), orderId |-> job.orderId, sku |-> sku]
         r    == Run(db, call)
     IN  /\ db' = r.db
         /\ job' = [job EXCEPT !.results = Append(@, OrderEntry(sku, r.result)),
                                !.upAt = Append(@, redisUp),
                                !.stockChanged =
                                  @ \/ \E s \in Skus : StockOf(r.db, s) # StockOf(db, s),
                                !.changed = @ \/ r.db # db]
         /\ committedQty' = Committed(call, r.result)
  /\ UNCHANGED <<initialStock, callerVars, cl, expiredQty, sweepVars, redisUp, mongo, rec,
                 appVars>>

\* the job returns { success: true, ... }
JobComplete ==
  /\ job.pc = "loop"
  /\ Len(job.results) = Len(job.skus)
  /\ job' = [job EXCEPT !.pc = "done"]
  /\ orderDocs' =
       [orderDocs EXCEPT ![job.orderId].paidRuns =
          IF job.type = "processOrderPaid" /\ \A i \in 1..Len(job.upAt) : job.upAt[i]
            THEN 1 ELSE @]
  /\ UNCHANGED <<appFrame, queue>>

NextApp ==
  \/ handlePaymentSuccess \/ handlePaymentFailed \/ cancelOrder \/ WebhookPaymentFailed
  \/ JobStart \/ JobStep \/ JobComplete
  \/ ConnectionLost \/ ConnectionRestored

SpecApp == InitApp /\ [][NextApp]_vars

(***************************************************************************)
(* SpecGauge: metrics enabled; the gauge of every SKU shows its stock, as  *)
(* initializeStock leaves it; then one call of the service, with the       *)
(* recordInventoryMetric('stock', ...) calls it makes.                     *)
(***************************************************************************)
\* inventoryMetrics.stock.set({ sku, ... }, stock)
recordInventoryMetric(g, sku, stock) == [g EXCEPT ![sku] = <<stock>>]

\* initializeStock(sku, quantity): SET, then the gauge
initializeStock(d, sku, quantity) ==
  [db |-> SET(d, getStockKey(sku), quantity), result |-> quantity]

InitializeStockCall(sku, quantity) ==
  [op |-> "initializeStock", sku |-> sku, quantity |-> quantity]

GaugeCalls ==
  SingleCalls \cup BatchCalls \cup AdjustCalls
    \cup {InitializeStockCall(s, q) : s \in Skus, q \in 0..MaxStock}

\* what the call returns, with success set for the calls that return a value
GaugeRun(d, call) ==
  CASE call.op = "updateStock" ->
         LET r == updateStock(d, call.sku, call.quantity, call.operation)
         IN  [db |-> r.db,
              result |-> [thrown |-> FALSE, success |-> TRUE, newStock |-> r.newStock]]
    [] call.op = "initializeStock" ->
         LET r == initializeStock(d, call.sku, call.quantity)
         IN  [db |-> r.db,
              result |-> [thrown |-> FALSE, success |-> TRUE, newStock |-> r.result]]
    [] OTHER -> Run(d, call)

\* the gauge after the call: reserveStock and batchReserveStock record only
\* the 'reservation' counter
GaugeAfter(g, call, result) ==
  CASE call.op \in {"updateStock", "initializeStock"} ->
         recordInventoryMetric(g, call.sku, result.newStock)
    [] call.op = "release" /\ result.success ->
         recordInventoryMetric(g, call.sku, result.newStock)
    [] call.op = "commit" /\ result.success ->
         recordInventoryMetric(g, call.sku, result.remainingStock)
    [] OTHER -> g

InitGauge ==
  /\ \E held \in [Orders \X Skus -> 0..MaxQty] :
       db = [k \in StockKeys \cup {getReservationKey(p[1], p[2]) :
                                     p \in {x \in Orders \X Skus : held[x] > 0}} |->
               IF k[1] = "stock"
                 THEN [val |-> MaxStock, ttl |-> NoExpiry]
                 ELSE [val |-> held[<<k[2], k[3]>>], ttl |-> MaxTtl]]
  /\ initialStock = [s \in Skus |-> StockOf(db, s)]
  /\ committedQty = [s \in Skus |-> 0]
  /\ last = NoCall(db)
  /\ prev = NoPrev
  /\ cl = IdleClients
  /\ swPc = "idle"
  /\ swKeys = {}
  /\ swCur = <<>>
  /\ cleanedCount = 0
  /\ expiredQty = [s \in Skus |-> 0]
  /\ expiredAtStart = [s \in Skus |-> 0]
  /\ sweeperRestored = [s \in Skus |-> 0]
  /\ redisUp = TRUE
  /\ mongo = <<>>
  /\ rec = [pc |-> "idle"]
  /\ job = [pc |-> "idle"]
  /\ life = [p \in Orders \X Skus |-> "NONE"]
  /\ orderDocs = <<>>
  /\ queue = <<>>
  /\ gauge = [s \in Skus |-> <<StockOf(db, s)>>]
  /\ scripts = ScriptsLoaded

GaugeCall ==
  \E call \in GaugeCalls :
    /\ last.call.op = "none"
    /\ db' = GaugeRun(db, call).db
    /\ last' = [call |-> call, before |-> db, result |-> GaugeRun(db, call).result]
    /\ gauge' = GaugeAfter(gauge, call, GaugeRun(db, call).result)
    /\ UNCHANGED <<redisUp, mongo, rec, job, life, orderDocs, queue, scripts,
                   engineHist, prev, cl, expiredQty, sweepVars>>

NextGauge == GaugeCall

SpecGauge == InitGauge /\ [][NextGauge]_vars

(***************************************************************************)
(* SpecRefund: one order_refunded job of the order queue.  The processor   *)
(* returns the stock of every item, then does the steps that touch no      *)
(* stock (product analytics, refund mail, daily sales, cache); any await   *)
(* can throw, and the job runner runs a failed job again from the start    *)
(* until its attempts are used up.                                         *)
(***************************************************************************)
\* defaultJobOptions.attempts
Attempts == 3

\* order.items of the refunded order, one line per SKU
RefundItems ==
  {items \in UNION {[1..n -> Item] : n \in 1..MaxItems} :
     \A i, j \in 1..Len(items) : items[i].sku = items[j].sku => i = j}

\* the quantity of the order's line for the SKU, 0 without one
Refunded(items, sku) ==
  LET F[n \in 0..Len(items)] ==
        IF n = 0 THEN 0
        ELSE F[n - 1] + (IF items[n].sku = sku THEN items[n].quantity ELSE 0)
  IN  F[Len(items)]

refundFrame == <<engineHist, callerVars, cl, expiredQty, sweepVars, mongo, appVars, rec>>

\* the worker takes the job: Order.findById
RefundStart ==
  \E items \in RefundItems :
    /\ job.pc = "idle"
    /\ job' = [pc |-> "stock", items |-> items, i |-> 1, attemptsMade |-> 0]
    /\ UNCHANGED <<db, redisUp, refundFrame>>

\* await InventoryService.updateStock(item.sku, item.quantity, 'increment')
RefundUpdateStock ==
  /\ job.pc = "stock"
  /\ redisUp
  /\ db' = updateStock(db, job.items[job.i].sku, job.items[job.i].quantity, "increment").db
  /\ job' = IF job.i = Len(job.items)
              THEN [job EXCEPT !.pc = "after"]
              ELSE [job EXCEPT !.i = job.i + 1]
  /\ UNCHANGED <<redisUp, refundFrame>>

\* the rest of the processor: recordSale, sendRefundConfirmation,
\* updateDailySales, invalidateSalesStats; the job succeeds
RefundAfter ==
  /\ job.pc = "after"
  /\ job' = [job EXCEPT !.pc = "done"]
  /\ UNCHANGED <<db, redisUp, refundFrame>>

\* an await throws (updateStock without a connection, or one of the later
\* steps): the processor rethrows, the job runner retries or gives up
RefundThrows ==
  /\ \/ job.pc = "stock" /\ ~redisUp
     \/ job.pc = "after"
  /\ job' = IF job.attemptsMade + 1 < Attempts
              THEN [job EXCEPT !.pc = "stock", !.i = 1,
                               !.attemptsMade = job.attemptsMade + 1]
              ELSE [job EXCEPT !.pc = "failed", !.attemptsMade = job.attemptsMade + 1]
  /\ UNCHANGED <<db, redisUp, refundFrame>>

NextRefund ==
  \/ RefundStart
  \/ RefundUpdateStock
  \/ RefundAfter
  \/ RefundThrows
  \/ ConnectionLost
  \/ ConnectionRestored

SpecRefund == Init /\ [][NextRefund]_vars

(***************************************************************************)
(* SpecLoad: the constructor of InventoryService has started               *)
(* loadLuaScripts and returned; the four SCRIPT LOADs finish one after the *)
(* other, and one call of the service arrives at any point of that.        *)
(***************************************************************************)
\* this.scripts = {} and loadLuaScripts() not awaited
ScriptsEmpty ==
  [sha |-> [n \in {ScriptNames[i] : i \in 1..Len(ScriptNames)} |-> <<>>], pc |-> "run"]

\* the script the next SCRIPT LOAD of loadLuaScripts is for; 0 after the last
NextToLoad(sc) ==
  LET unset == {i \in 1..Len(ScriptNames) : sc.sha[ScriptNames[i]] = <<>>}
  IN  IF unset = {} THEN 0 ELSE CHOOSE i \in unset : \A j \in unset : i <= j

\* mutant: a call made with an unset handle runs the script all the same
RunLoaded_RunsUnloaded(sc, d, call) == Run(d, call)

\* evalsha(this.scripts.<name>, ...): with the handle still undefined no
\* script of that digest exists; the reply is an error and nothing runs
RunLoaded(sc, d, call) ==
  IF sc.sha[call.op] = <<>> THEN [db |-> d, result |-> Thrown] ELSE Run(d, call)

loadFrame == <<redisUp, mongo, rec, job, life, orderDocs, queue, gauge, engineHist, prev,
               cl, expiredQty, sweepVars>>

\* this.scripts.<name> = await redis.getClient().script('LOAD', ...)
LoadScript ==
  /\ scripts.pc = "run"
  /\ redisUp
  /\ LET i  == NextToLoad(scripts)
         sh == [scripts.sha EXCEPT ![ScriptNames[i]] = <<ScriptNames[i]>>]
     IN  scripts' = [sha |-> sh, pc |-> IF i = Len(ScriptNames) THEN "done" ELSE "run"]
  /\ UNCHANGED <<db, last, loadFrame>>

\* a SCRIPT LOAD is rejected: loadLuaScripts throws, the handles not yet set
\* stay unset
LoadFails ==
  /\ scripts.pc = "run"
  /\ ~redisUp
  /\ scripts' = [scripts EXCEPT !.pc = "failed"]
  /\ UNCHANGED <<db, last, loadFrame>>

LoadCall ==
  \E call \in SingleCalls \cup BatchCalls :
    /\ last.call.op = "none"
    /\ db' = RunLoaded(scripts, db, call).db
    /\ last' = [call |-> call, before |-> db,
                result |-> RunLoaded(scripts, db, call).result,
                handle |-> scripts.sha[call.op], up |-> redisUp]
    /\ UNCHANGED <<scripts, loadFrame>>

LoadConnectionLost ==
  /\ redisUp
  /\ redisUp' = FALSE
  /\ UNCHANGED <<db, last, scripts, mongo, rec, job, life, orderDocs, queue, gauge,
                 engineHist, prev, cl, expiredQty, sweepVars>>

InitLoad ==
  /\ \E held \in [Orders \X Skus -> 0..MaxQty] :
       db = [k \in StockKeys \cup {getReservationKey(p[1], p[2]) :
                                     p \in {x \in Orders \X Skus : held[x] > 0}} |->
               IF k[1] = "stock"
                 THEN [val |-> MaxStock, ttl |-> NoExpiry]
                 ELSE [val |-> held[<<k[2], k[3]>>], ttl |-> MaxTtl]]
  /\ initialStock = [s \in Skus |-> StockOf(db, s)]
  /\ committedQty = [s \in Skus |-> 0]
  /\ last = NoCall(db)
  /\ prev = NoPrev
  /\ cl = IdleClients
  /\ swPc = "idle"
  /\ swKeys = {}
  /\ swCur = <<>>
  /\ cleanedCount = 0
  /\ expiredQty = [s \in Skus |-> 0]
  /\ expiredAtStart = [s \in Skus |-> 0]
  /\ sweeperRestored = [s \in Skus |-> 0]
  /\ redisUp = TRUE
  /\ mongo = <<>>
  /\ rec = [pc |-> "idle"]
  /\ job = [pc |-> "idle"]
  /\ life = [p \in Orders \X Skus |-> "NONE"]
  /\ orderDocs = <<>>
  /\ queue = <<>>
  /\ gauge = [s \in Skus |-> <<>>]
  /\ scripts = ScriptsEmpty

NextLoad == LoadScript \/ LoadFails \/ LoadCall \/ LoadConnectionLost

SpecLoad == InitLoad /\ [][NextLoad]_vars

(***************************************************************************)
(* Claims about the engine under any sequence of calls (Spec).             *)
(***************************************************************************)
LastKey == getReservationKey(last.call.orderId, last.call.sku)
StockBefore == StockOf(last.before, last.call.sku)

\* C1: in every state reachable by reserve, batchReserve, release and commit
\* calls from non-negative stock, the stock counter of every SKU is >= 0.
C1_StockNeverNegative == \A s \in Skus : StockOf(db, s) >= 0

\* C2: for every SKU, committed quantities + quantities of the held
\* reservations + current stock = the SKU's initial stock.
C2_Conservation ==
  \A s \in Skus : committedQty[s] + HeldOf(db, s) + StockOf(db, s) = initialStock[s]

\* C4: batchReserve is all-or-nothing: when some item of the batch has
\* stock < requested quantity, the call reports failure and changes no stock
\* counter and creates no reservation record.
C4_BatchAllOrNothing ==
  (/\ last.call.op = "batchReserve"
   /\ \E j \in 1..Len(last.call.items) :
        StockOf(last.before, last.call.items[j].sku) < last.call.items[j].quantity)
  => (/\ ~last.result.thrown
      /\ ~last.result.success
      /\ db = last.before)

\* a two-item batch over both SKUs failed with one item sufficient, one not
C4_Witness ==
  /\ last.call.op = "batchReserve"
  /\ Len(last.call.items) = 2
  /\ ~last.result.success
  /\ last.result.reservations[1].success
  /\ ~last.result.reservations[2].success
  /\ last.result.reservations[1].sku # last.result.reservations[2].sku
  /\ last.result.reservations[1].availableStock > 0

\* C5: a reserve call for an (orderId, SKU) pair that already has an active
\* reservation fails: no new record, the existing record unchanged, stock not
\* decremented.  (At most one record per pair holds by the key's shape.)
C5_SecondReserveFails ==
  (last.call.op = "reserve" /\ EXISTS(last.before, LastKey))
  => (~last.result.success /\ db = last.before)

\* C7: reserve with current stock < qty fails, returns the current stock as
\* available together with the requested quantity, and changes neither the
\* stock counter nor any reservation record.
C7_InsufficientStockNoEffect ==
  (last.call.op = "reserve" /\ StockBefore < last.call.quantity)
  => (/\ ~last.result.thrown
      /\ ~last.result.success
      /\ last.result.availableStock = StockBefore
      /\ last.result.requestedQuantity = last.call.quantity
      /\ db = last.before)

\* a reserve of 2 units failed with 1 unit available
C7_Witness ==
  /\ last.call.op = "reserve"
  /\ ~last.result.success
  /\ last.call.quantity = 2
  /\ last.result.availableStock = 1

C9_ReleaseReturnsStock ==
  (last.call.op = "release" /\ EXISTS(last.before, LastKey))
  => (/\ ~last.result.thrown
      /\ last.result.success
      /\ last.result.releasedQuantity = last.before[LastKey].val
      /\ last.result.newStock = StockBefore + last.before[LastKey].val
      /\ StockOf(db, last.call.sku) = StockBefore + last.before[LastKey].val
      /\ ~EXISTS(db, LastKey))

\* a reservation of 2 units was released
C9_Witness ==
  /\ last.call.op = "release"
  /\ EXISTS(last.before, LastKey)
  /\ last.result.success
  /\ last.result.releasedQuantity = 2

\* C10: the second of two release(orderId, sku) calls in a row returns
\* released = false with the current stock, raises no error and leaves stock
\* and all reservations unchanged.
C10_ReleaseIdempotent ==
  (last.call.op = "release" /\ prev.op = "release")
  => (/\ ~last.result.thrown
      /\ ~last.result.success
      /\ last.result.currentStock = StockOf(db, last.call.sku)
      /\ db = last.before)

\* a release that released stock was followed by a release of the same pair
C10_Witness ==
  /\ last.call.op = "release"
  /\ prev.op = "release"
  /\ prev.success
  /\ ~last.result.success
  /\ StockOf(db, last.call.sku) > 0

\* C11: commit on an existing reservation of quantity q deletes the
\* reservation and leaves the stock counter of the SKU as it was; it returns
\* committed = true, quantity q and the unchanged current stock.
C11_CommitKeepsStock ==
  (last.call.op = "commit" /\ EXISTS(last.before, LastKey))
  => (/\ ~last.result.thrown
      /\ last.result.success
      /\ last.result.committedQuantity = last.before[LastKey].val
      /\ last.result.remainingStock = StockBefore
      /\ db = DEL(last.before, LastKey))

\* a reservation of 2 units was committed with 0 units left in stock
C11_Witness ==
  /\ last.call.op = "commit"
  /\ EXISTS(last.before, LastKey)
  /\ last.result.success
  /\ last.result.committedQuantity = 2
  /\ EXISTS(db, getStockKey(last.call.sku))
  /\ StockOf(db, last.call.sku) = 0

\* C12: a commit(orderId, sku) that follows a successful commit of the same
\* pair, with no call in between, returns committed = false with the current
\* stock, raises no error and changes neither stock nor any reservation.
C12_CommitIdempotent ==
  (last.call.op = "commit" /\ prev.op = "commit" /\ prev.success)
  => (/\ ~last.result.thrown
      /\ ~last.result.success
      /\ last.result.currentStock = StockOf(db, last.call.sku)
      /\ db = last.before)

\* a commit that committed a reservation was followed by a commit of the same
\* pair, while stock and another order's reservation of the SKU were there
C12_Witness ==
  /\ last.call.op = "commit"
  /\ prev.op = "commit"
  /\ prev.success
  /\ ~last.result.success
  /\ last.result.currentStock = 0
  /\ EXISTS(db, getStockKey(last.call.sku))
  /\ HeldOf(db, last.call.sku) > 0

RacedForLastUnit(s) ==
  /\ initialStock[s] = 1
  /\ \A c \in Clients :
       /\ cl[c].pc = "done"
       /\ cl[c].call.op = "reserve"
       /\ cl[c].call.sku = s
       /\ cl[c].call.quantity = 1
  /\ cl["c1"].call.orderId # cl["c2"].call.orderId

\* C3: with stock = 1 and two concurrent reserve(orderX, sku, 1) and
\* reserve(orderY, sku, 1), in every interleaving exactly one call succeeds,
\* the other fails with available stock 0, the final stock is 0 and exactly
\* one reservation exists.
C3_ExactlyOneReserveWins ==
  \A s \in Skus :
    RacedForLastUnit(s)
    => (/\ \E w \in Clients :
             /\ cl[w].result.success
             /\ \A c \in Clients \ {w} :
                  /\ ~cl[c].result.thrown
                  /\ ~cl[c].result.success
                  /\ cl[c].result.availableStock = 0
        /\ StockOf(db, s) = 0
        /\ Cardinality({o \in Orders : EXISTS(db, getReservationKey(o, s))}) = 1)

\* the race was run and the second client won it
C3_Witness ==
  \E s \in Skus :
    /\ RacedForLastUnit(s)
    /\ cl["c2"].result.success
    /\ ~cl["c1"].result.success

(***************************************************************************)
(* Claims about concurrent calls of any kind (SpecConc).                   *)
(***************************************************************************)
\* quantity a batch requests of a SKU, over all its items
RECURSIVE RequestedOf(_, _)
RequestedOf(items, sku) ==
  IF items = <<>> THEN 0
  ELSE (IF Head(items).sku = sku THEN Head(items).quantity ELSE 0)
       + RequestedOf(Tail(items), sku)

BatchKeySet(call) ==
  {getStockKey(call.items[j].sku) : j \in 1..Len(call.items)}
    \cup {getReservationKey(call.orderId, call.items[j].sku) : j \in 1..Len(call.items)}

\* the step in which client c's batch is executed takes the key space from
\* "no item applied" to "every item applied", or leaves it alone
BatchStepWhole(c) ==
  LET call == cl[c].call
      res  == cl'[c].result
  IN  /\ ~res.thrown
      /\ \A j \in 1..Len(call.items) :
           res.reservations[j].availableStock = StockOf(db, call.items[j].sku)
      /\ IF res.success
           THEN /\ \A s \in Skus :
                     StockOf(db', s) = StockOf(db, s) - RequestedOf(call.items, s)
                /\ \A j \in 1..Len(call.items) :
                     EXISTS(db', getReservationKey(call.orderId, call.items[j].sku))
                /\ \A k \in (DOMAIN db \cup DOMAIN db') \ BatchKeySet(call) :
                     k \in DOMAIN db /\ k \in DOMAIN db' /\ db'[k] = db[k]
           ELSE db' = db

DoneOrders ==
  LET finished == {c \in Clients : cl[c].pc = "done"}
  IN  {order \in [1..Cardinality(finished) -> finished] :
         \A i, j \in DOMAIN order : order[i] = order[j] => i = j}

\* running the calls one after the other in this order, from key space d,
\* gives every client the result it got and ends in the current key space
RECURSIVE SerialMatches(_, _)
SerialMatches(d, order) ==
  IF order = <<>> THEN d = db
  ELSE LET r == Run(d, cl[Head(order)].call)
       IN  /\ r.result = cl[Head(order)].result
           /\ SerialMatches(r.db, Tail(order))

\* C14: reserve, commit, release and batchReserve operations are
\* serialized: at every moment the key space and the results received are
\* those of running the completed operations one after the other in some
\* order, so no operation sees stock decremented without the reservation
\* recorded, or the reverse.
C14_Serialized == \E order \in DoneOrders : SerialMatches(last.before, order)

\* a release found the reservation the other client's reserve had recorded
\* and put its stock back
C14_Witness ==
  /\ \A c \in Clients : cl[c].pc = "done"
  /\ cl["c1"].call.op = "reserve"
  /\ cl["c1"].result.success
  /\ cl["c2"].call.op = "release"
  /\ cl["c2"].result.success
  /\ cl["c2"].result.releasedQuantity = cl["c1"].call.quantity
  /\ db = last.before

(***************************************************************************)
(* Claims about what a call leaves alone (Spec).                           *)
(***************************************************************************)
\* key k has the same value and expiry in d1 and d2, or exists in neither
SameAt(d1, d2, k) ==
  /\ EXISTS(d1, k) <=> EXISTS(d2, k)
  /\ EXISTS(d1, k) => d1[k] = d2[k]

\* k is the stock counter of another SKU or a reservation record of another pair
ForeignKey(k, orderId, sku) == k[3] # sku \/ (k[1] = "reservation" /\ k[2] # orderId)

\* C26: reserve, release and commit on SKU A for order O leave unchanged the
\* stock counter of every other SKU and every reservation record other than
\* (O, A); batchReserve changes only the stock counters and reservation
\* records of the SKUs listed in its items.
C26_FrameEffect ==
  LET keys == DOMAIN last.before \cup DOMAIN db
  IN  /\ last.call.op \in SingleOps
           => \A k \in keys :
                ForeignKey(k, last.call.orderId, last.call.sku)
                  => SameAt(last.before, db, k)
      /\ last.call.op = "batchReserve"
           => \A k \in keys \ BatchKeySet(last.call) : SameAt(last.before, db, k)

\* a release of (o1, A) succeeded while o2 held A and o1 held B
C26_Witness ==
  /\ last.call.op = "release"
  /\ last.call.orderId = "o1"
  /\ last.call.sku = "A"
  /\ last.result.success
  /\ EXISTS(db, <<"reservation", "o2", "A">>)
  /\ EXISTS(db, <<"reservation", "o1", "B">>)
  /\ EXISTS(db, <<"stock", "sku", "B">>)

\* C27: when a batchReserve item list names the same SKU more than once, the
\* batch succeeds only if the SKU's stock is at least the total quantity
\* requested for that SKU across all its entries; a successful batch never
\* drives that SKU's stock below 0.
C27_DuplicateSkuBatch ==
  (/\ last.call.op = "batchReserve"
   /\ last.result.success
   /\ \A s \in Skus : StockOf(last.before, s) >= 0)
  => \A s \in Skus :
       /\ StockOf(last.before, s) >= RequestedOf(last.call.items, s)
       /\ StockOf(db, s) >= 0

(***************************************************************************)
(* Claims about the quantities of reservations (SpecQty).                  *)
(***************************************************************************)
\* C22: every reservation record in the store holds a positive integer
\* quantity: reserve and batchReserve never create a record whose quantity is
\* <= 0, and never change stock for such a request.
C22_PositiveQuantities ==
  /\ \A k \in DOMAIN db : k[1] = "reservation" => db[k].val > 0
  /\ (last.call.op = "reserve" /\ last.call.quantity <= 0)
       => \A s \in Skus : StockOf(db, s) = StockOf(last.before, s)
  /\ (/\ last.call.op = "batchReserve"
      /\ \E j \in 1..Len(last.call.items) : last.call.items[j].quantity <= 0)
       => \A s \in Skus : StockOf(db, s) = StockOf(last.before, s)

(***************************************************************************)
(* Claims about the life cycle of a reservation (SpecLife).                *)
(***************************************************************************)
\* C21: per (orderId, SKU) pair the life cycle is NONE -> RESERVED ->
\* {COMMITTED | RELEASED} with terminal resolutions: a record exists exactly
\* while the pair is RESERVED, release and commit take effect only on a
\* RESERVED pair; after a commit, a release with no reserve in between
\* returns released = false and does not increase stock; after a release, a
\* commit returns committed = false.
C21_LifeCycle ==
  /\ \A p \in Pairs :
       /\ life[p] \in {"NONE", "RESERVED", "COMMITTED", "RELEASED"}
       /\ life[p] = "RESERVED" <=> EXISTS(db, getReservationKey(p[1], p[2]))
  /\ last.call.op \in {"release", "commit"}
       => /\ ~last.result.thrown
          /\ last.result.success => last.was = "RESERVED"
  /\ (last.call.op = "release" /\ last.was = "COMMITTED")
       => /\ ~last.result.success
          /\ StockOf(db, last.call.sku) = StockBefore
  /\ (last.call.op = "commit" /\ last.was = "RELEASED")
       => ~last.result.success /\ db = last.before

\* a release came after the commit of the same pair, with stock on hand and
\* another pair already released
C21_Witness ==
  /\ last.call.op = "release"
  /\ last.was = "COMMITTED"
  /\ StockBefore > 0
  /\ \E p \in Pairs : life[p] = "RELEASED"

(***************************************************************************)
(* Claims about updateStock (SpecAdjust).                                  *)
(***************************************************************************)
\* the clients whose increment or decrement of the SKU has been applied
AppliedTo(sku) ==
  {c \in Clients : cl[c].pc = "done" /\ cl[c].call.sku = sku}

RECURSIVE SumDelta(_)
SumDelta(cs) ==
  IF cs = {} THEN 0
  ELSE LET c == CHOOSE x \in cs : TRUE IN Delta(cl[c].call) + SumDelta(cs \ {c})

\* no 'set' has been issued for the SKU
OnlyAdjusted(sku) ==
  \A c \in Clients :
    (cl[c].pc # "idle" /\ cl[c].call.sku = sku) => cl[c].call.operation # "set"

\* C23: for concurrent updateStock 'increment' and 'decrement' calls on the
\* same SKU, in every interleaving the stock equals the initial stock plus
\* the sum of all applied deltas (no adjustment is lost), and each call
\* returns the stock value right after its own adjustment.
C23_AdjustAtomic ==
  \A s \in Skus :
    OnlyAdjusted(s)
      => /\ StockOf(db, s) = initialStock[s] + SumDelta(AppliedTo(s))
         /\ \A c \in AppliedTo(s) :
              /\ cl[c].newStock = cl[c].stockAfter
              /\ cl[c].stockAfter = cl[c].stockBefore + Delta(cl[c].call)

\* both clients adjusted the same SKU, and the decrement was applied on top
\* of the other client's increment
C23_Witness ==
  /\ cl["c1"].pc = "done"
  /\ cl["c2"].pc = "done"
  /\ cl["c1"].call.sku = cl["c2"].call.sku
  /\ cl["c1"].call.operation = "increment"
  /\ cl["c2"].call.operation = "decrement"
  /\ cl["c2"].stockBefore = initialStock[cl["c2"].call.sku] + cl["c1"].call.quantity

\* C24: the stock counter of a SKU is never negative after a Stock Ledger
\* write: updateStock(sku, q, 'decrement') and updateStock(sku, q, 'set')
\* never leave the counter below 0.
C24_AdjustNeverNegative ==
  \A c \in Clients :
    (cl[c].pc = "done" /\ cl[c].stockBefore >= 0) => cl[c].stockAfter >= 0

(***************************************************************************)
(* Claims about getOrderReservations (SpecList).                           *)
(***************************************************************************)
\* C25: getOrderReservations returns exactly the active reservations of the
\* given order, one entry per held SKU with that reservation's quantity and
\* remaining TTL, and no entry of another order; also when a reservation of
\* the order is released, committed or expires while the listing is in
\* progress, no entry has a missing quantity.
C25_ListByOrder ==
  job.pc = "done"
  => LET rs == job.reservations
     IN  /\ \A i \in 1..Len(rs) :
              /\ rs[i].quantity # NaN
              /\ EXISTS(job.dbAt, getReservationKey(job.orderId, rs[i].sku))
              /\ rs[i].quantity = parseInt(job.dbAt, getReservationKey(job.orderId, rs[i].sku))
              /\ rs[i].ttl > 0
              /\ \A j \in 1..Len(rs) : rs[j].sku = rs[i].sku => j = i
         /\ db = job.dbAt
              => \A s \in Skus :
                   EXISTS(db, getReservationKey(job.orderId, s))
                     <=> \E i \in 1..Len(rs) : rs[i].sku = s

(***************************************************************************)
(* Claims about commit racing release (SpecRaceHeld).                      *)
(***************************************************************************)
\* client c committed and client r released the same reservation, which
\* existed when both were sent
CommitRacedRelease(c, r) ==
  /\ cl[c].pc = "done"
  /\ cl[r].pc = "done"
  /\ cl[c].call.op = "commit"
  /\ cl[r].call.op = "release"
  /\ cl[c].call.orderId = cl[r].call.orderId
  /\ cl[c].call.sku = cl[r].call.sku
  /\ EXISTS(last.before, getReservationKey(cl[c].call.orderId, cl[c].call.sku))

\* C28: when commit(orderId, sku) and release(orderId, sku) run concurrently
\* on the same existing reservation of quantity q, in every interleaving
\* exactly one of them reports success and the other reports no reservation
\* found; stock is increased by q if and only if release was the one that
\* succeeded.
C28_CommitRacesRelease ==
  \A c \in Clients, r \in Clients :
    CommitRacedRelease(c, r)
      => LET sku == cl[c].call.sku
             q   == last.before[getReservationKey(cl[c].call.orderId, sku)].val
         IN  /\ ~cl[c].result.thrown /\ ~cl[r].result.thrown
             /\ cl[c].result.success # cl[r].result.success
             /\ cl[c].result.success => cl[c].result.committedQuantity = q
             /\ cl[r].result.success => cl[r].result.releasedQuantity = q
             /\ StockOf(db, sku)
                  = StockOf(last.before, sku) + (IF cl[r].result.success THEN q ELSE 0)
             /\ ~EXISTS(db, getReservationKey(cl[c].call.orderId, sku))

\* the commit won the race against the release of a reservation of MaxQty
C28_Witness ==
  /\ CommitRacedRelease("c1", "c2")
  /\ cl["c1"].result.success
  /\ cl["c1"].result.committedQuantity = MaxQty
  /\ ~cl["c2"].result.success

(***************************************************************************)
(* Claims about the order jobs (SpecApp).                                  *)
(***************************************************************************)
\* a processOrderPaid job has completed and Redis answered every command of it
PaidJobDone ==
  /\ job.pc = "done"
  /\ job.type = "processOrderPaid"
  /\ \A i \in 1..Len(job.upAt) : job.upAt[i]

\* C29: after processOrderPaid(orderId) completes with the store reachable,
\* no reservation remains for any SKU of the order's items, and the job has
\* changed no stock counter; running it a second time for the same order
\* changes neither stock nor reservations.
C29_PaidJobCommits ==
  PaidJobDone
  => /\ \A i \in 1..Len(job.skus) :
          ~EXISTS(db, getReservationKey(job.orderId, job.skus[i]))
     /\ ~job.stockChanged
     /\ job.runsBefore > 0 => ~job.changed

\* the second processOrderPaid of an order of two items has completed, the
\* first one having committed both
C29_Witness ==
  /\ PaidJobDone
  /\ job.runsBefore > 0
  /\ Len(job.skus) = 2
  /\ \A s \in Skus : committedQty[s] > 0

\* no processOrderCancelled job of the order is queued or running
NoCancelJobPending(o) ==
  /\ \A i \in 1..Len(queue) :
       ~(queue[i].type = "processOrderCancelled" /\ queue[i].orderId = o)
  /\ ~(job.pc = "loop" /\ job.type = "processOrderCancelled" /\ job.orderId = o)

\* C30: every payment failure or order cancellation is eventually followed
\* (once the queued processOrderCancelled job has run) by a state in which
\* every reservation the order still held has been removed and its quantity
\* added back to the SKU's stock, each quantity exactly once: when the
\* payment has failed or the order is cancelled and no such job is pending,
\* the order holds no reservation, and nothing was returned twice or lost.
C30_CancelledOrderReleased ==
  /\ \A o \in AppOrders :
       (/\ \/ orderDocs[o].status \in {"cancelled", "payment_failed"}
           \/ orderDocs[o].payment = "failed"
        /\ NoCancelJobPending(o))
       => \A i \in 1..Len(orderDocs[o].skus) :
            ~EXISTS(db, getReservationKey(o, orderDocs[o].skus[i]))
  /\ \A s \in Skus :
       StockOf(db, s) + HeldOf(db, s) + committedQty[s]
         = StockOf(last.before, s) + HeldOf(last.before, s)

(***************************************************************************)
(* Claims about reserve followed by release (SpecRoundTrip).               *)
(***************************************************************************)
\* C32: a successful reserve(orderId, sku, qty) immediately followed by
\* release(orderId, sku) restores the SKU's stock to its value before the
\* reserve and leaves no reservation for (orderId, sku); the released
\* quantity reported equals qty.
C32_RoundTrip ==
  last.call.op = "release"
  => /\ last.result.success
     /\ last.result.releasedQuantity = last.reserve.call.quantity
     /\ StockOf(db, last.call.sku) = StockOf(last.reserve.before, last.call.sku)
     /\ last.result.newStock = StockOf(last.reserve.before, last.call.sku)
     /\ ~EXISTS(db, LastKey)

\* the round trip took the last MaxQty units and gave them back, while the
\* other order held the same SKU
C32_Witness ==
  /\ last.call.op = "release"
  /\ last.reserve.call.quantity = MaxQty
  /\ last.reserve.result.remainingStock = 0
  /\ \E o \in Orders : o # last.call.orderId /\ EXISTS(db, getReservationKey(o, last.call.sku))

(***************************************************************************)
(* Claims about a batch of one item (SpecSame).                            *)
(***************************************************************************)
\* C33: a batchReserve with a single item {sku, qty} is equivalent to
\* reserve(orderId, sku, qty, ttl): from the same starting state both report
\* the same success or failure and produce the same stock counter and the
\* same reservation record.
C33_SingleItemBatch ==
  last.call.op = "reserve"
  => /\ last.batchResult.thrown = last.result.thrown
     /\ last.batchResult.success = last.result.success
     /\ last.batchDb = db

\* both ways took the last units of a SKU for a pair that already held it
C33_Witness ==
  /\ last.call.op = "reserve"
  /\ last.result.success
  /\ last.batchResult.success
  /\ StockBefore > 0
  /\ StockOf(db, last.call.sku) = 0
  /\ EXISTS(last.before, LastKey)
  /\ db[LastKey].val # last.before[LastKey].val

\* C34: a reserve or batchReserve call that ends in an error (for example
\* the reservation write is rejected because ttl <= 0) leaves every stock
\* counter unchanged: stock is never decremented without the matching
\* reservation record having been created.
C34_ErrorLeavesStock ==
  (last.call.op = "reserve" /\ last.call.quantity > 0)
  => /\ last.result.thrown
          => \A s \in Skus : StockOf(db, s) = StockOf(last.before, s)
     /\ last.batchResult.thrown
          => \A s \in Skus : StockOf(last.batchDb, s) = StockOf(last.before, s)

(***************************************************************************)
(* Claims about the inline commands (SpecInline).                          *)
(***************************************************************************)
\* C37: the inline Redis commands reserveStock and releaseReservation have
\* the same effect on the stock key and the reservation key as
\* scripts/reserve-stock.lua and scripts/release-reservation.lua for every
\* starting state and input, and report success exactly when the file
\* scripts do.
C37_InlineSameAsScripts ==
  last.call.op \in {"reserve", "release"}
  => /\ last.inline.db = last.file.db
     /\ last.inline.err = last.file.err
     /\ ~last.file.err => (last.inline.ret = 1 <=> last.file.ret[1] = 1)

\* both releases gave MaxQty units back to the stock
C37_Witness ==
  /\ last.call.op = "release"
  /\ last.file.ret[1] = 1
  /\ last.inline.ret = 1
  /\ last.file.ret[2] = MaxQty
  /\ StockOf(db, last.call.sku) = StockBefore + MaxQty

(***************************************************************************)
(* Claims about the stock gauge (SpecGauge).                               *)
(***************************************************************************)
\* the SKUs whose stock the call could change
SkusOf(call) ==
  IF call.op = "batchReserve" THEN {call.items[j].sku : j \in 1..Len(call.items)}
  ELSE {call.sku}

\* C31: after any single non-concurrent reserve, batchReserve, release,
\* commit, initializeStock or updateStock call returns successfully, the
\* gauge value recorded for each SKU whose stock the call could change
\* equals that SKU's current stock.
C31_GaugeTracksStock ==
  (last.call.op # "none" /\ last.result.success)
  => \A s \in SkusOf(last.call) : gauge[s] = <<StockOf(db, s)>>

(***************************************************************************)
(* Claims about processOrderRefunded (SpecRefund).                         *)
(***************************************************************************)
\* C36: once the order_refunded job has succeeded, each SKU's stock has
\* grown by exactly the quantity of the order's item, also when an earlier
\* attempt failed part-way and the job was retried.
C36_RefundOnce ==
  job.pc = "done"
  => \A s \in Skus : StockOf(db, s) = initialStock[s] + Refunded(job.items, s)

(***************************************************************************)
(* Claims about calls made while the scripts are loading (SpecLoad).       *)
(***************************************************************************)
\* C38: a reserveStock, batchReserveStock, releaseReservation or
\* commitReservation call made while the handle of its script is not yet
\* set fails with an error, changes neither stock nor reservations, and
\* returns no success result.
C38_UnloadedCallFails ==
  (last.call.op # "none" /\ last.handle = <<>>)
  => /\ last.result.thrown
     /\ ~last.result.success
     /\ db = last.before

\* a call with an unset handle that would have succeeded with the script
\* loaded, Redis being reachable
C38_Witness ==
  /\ last.call.op # "none"
  /\ last.handle = <<>>
  /\ last.up
  /\ Run(last.before, last.call).result.success
  /\ last.result.thrown

(***************************************************************************)
(* Claims about reconcileInventory (SpecReconcile, SpecReconcileQuiet).    *)
(***************************************************************************)
\* the variants the running job has in scope, and the SKUs they stand for
ScopeVariants == ActiveVariants(Find(rec.merchantId))
ScopeSkus == {ScopeVariants[j].sku : j \in 1..Len(ScopeVariants)}

\* variant.stock of the SKU in the products collection
MongoStockOf(sku) ==
  LET i == CHOOSE x \in DOMAIN mongo : mongo[x].variants[1].sku = sku
  IN  mongo[i].variants[1].stock

\* C15: running the reconciliation while reservations are held keeps the
\* relationship invariant: after reconcileInventory completes, for every SKU
\* the fast-store stock plus the quantities of its active reservations
\* equals the stock recorded in the persistent store.
C15_ReconcileKeepsRelationship ==
  rec.pc = "done"
  => \A s \in ScopeSkus : StockOf(db, s) + HeldOf(db, s) = MongoStockOf(s)

\* C16: reconciliation is safe under concurrent traffic: no engine operation
\* takes effect between its read of the stock mirror and its overwrite, so
\* the value it is about to overwrite is still the value it read.
C16_NoWriteBetweenReadAndOverwrite ==
  rec.pc = "set" => getStock(db, Head(rec.todo).sku) = rec.redisStock

\* the in-scope variants whose stock differed from the mirror when the job began
DifferedAtStart ==
  LET differed(v) == StockOf(rec.before, v.sku) # v.stock
  IN  SelectSeq(ScopeVariants, differed)

\* C17: after reconcileInventory completes with no concurrent traffic, the
\* fast-store stock of every active variant of every active product in scope
\* equals the variant stock; every SKU whose two values differed is reported
\* with redisStock, mongoStock and difference = redisStock - mongoStock, and
\* the SKUs whose values were equal are not written.
C17_ReconcileAlone ==
  rec.pc = "done"
  => (/\ \A s \in ScopeSkus : StockOf(db, s) = MongoStockOf(s)
      /\ Len(rec.discrepancies) = Len(DifferedAtStart)
      /\ \A j \in 1..Len(DifferedAtStart) :
           LET v   == DifferedAtStart[j]
               dis == rec.discrepancies[j]
           IN  /\ dis.sku = v.sku
               /\ dis.redisStock = StockOf(rec.before, v.sku)
               /\ dis.mongoStock = v.stock
               /\ dis.difference = StockOf(rec.before, v.sku) - v.stock
      /\ rec.reconciledCount = Len(DifferedAtStart)
      /\ rec.written = {DifferedAtStart[j].sku : j \in 1..Len(DifferedAtStart)}
      /\ \A s \in Skus \ rec.written :
           /\ EXISTS(db, getStockKey(s)) <=> EXISTS(rec.before, getStockKey(s))
           /\ StockOf(db, s) = StockOf(rec.before, s))

\* both SKUs were in scope: one had no stock key against a variant stock of 2
\* and was written, the other was equal and left alone
C17_Witness ==
  /\ rec.pc = "done"
  /\ Cardinality(ScopeSkus) = 2
  /\ Len(rec.discrepancies) = 1
  /\ rec.discrepancies[1].difference = 0 - 2
  /\ ~EXISTS(rec.before, getStockKey(rec.discrepancies[1].sku))
  /\ StockOf(db, rec.discrepancies[1].sku) = 2
  /\ \E s \in ScopeSkus \ rec.written : StockOf(db, s) = 1

(***************************************************************************)
(* Claims about an unreachable store (SpecFail, SpecOrderJob).             *)
(***************************************************************************)
\* C18: when the backing store call fails during reserve, batchReserve,
\* release or commit, the operation raises an error to its caller: it returns
\* neither a success result nor the insufficient-stock or
\* reservation-not-found result.
C18_StoreFailureRaises ==
  (last.call.op \in {"reserve", "batchReserve", "release", "commit"} /\ ~last.up)
  => (last.result = Thrown /\ db = last.before)

\* a reserve for which the stock would have sufficed was made with Redis
\* unreachable
C18_Witness ==
  /\ last.call.op = "reserve"
  /\ ~last.up
  /\ last.result.thrown
  /\ StockBefore >= last.call.quantity
  /\ HeldOf(db, last.call.sku) > 0

\* C19: releaseOrderReservations / commitOrderReservations process every
\* SKU of the list independently: an error or a missing reservation for one
\* SKU does not stop the processing of the others, and the result list has
\* exactly one entry per input SKU, in input order, each with the outcome of
\* that SKU's own call.
C19_OrderJobPerSku ==
  job.pc = "done"
  => (/\ Len(job.results) = Len(job.skus)
      /\ Len(job.dbAt) = Len(job.skus)
      /\ \A j \in 1..Len(job.skus) :
           /\ job.results[j].sku = job.skus[j]
           /\ IF job.upAt[j]
                THEN /\ "error" \notin DOMAIN job.results[j]
                     /\ job.results[j].success
                          <=> EXISTS(job.dbAt[j], getReservationKey(job.orderId, job.skus[j]))
                     /\ job.results[j].success
                          => (IF job.op = "release"
                                THEN job.results[j].releasedQuantity
                                ELSE job.results[j].committedQuantity)
                             = job.dbAt[j][getReservationKey(job.orderId, job.skus[j])].val
                     /\ ~EXISTS(db, getReservationKey(job.orderId, job.skus[j]))
                ELSE /\ ~job.results[j].success
                     /\ "error" \in DOMAIN job.results[j])

\* the call for the first SKU met an unreachable Redis, the call for the
\* second SKU went through and resolved its reservation
C19_Witness ==
  /\ job.pc = "done"
  /\ Len(job.skus) = 2
  /\ job.skus[1] # job.skus[2]
  /\ ~job.upAt[1]
  /\ job.upAt[2]
  /\ ~job.results[1].success
  /\ job.results[2].success
  /\ EXISTS(db, getReservationKey(job.orderId, job.skus[1]))

(***************************************************************************)
(* Claims about expiry and the sweep (SpecSweep).                          *)
(***************************************************************************)
\* C6: when a reservation of quantity q disappears by TTL expiry, then after
\* the Sweeper has run the SKU's stock has been increased by exactly q, once:
\* at the end of every sweep, the stock the sweeps have added back equals the
\* quantity that had expired when that sweep began.
C6_ExpiredReservationCompensatedOnce ==
  swPc = "done" => \A s \in Skus : sweeperRestored[s] = expiredAtStart[s]


=============================================================================
